---- MODULE Spec2Model ----
(***************************************************************************)
(* Serial-link lifecycle of the NMEA handler (src/app/main.py):            *)
(* NMEAHandler.connect_serial with its baud negotiation, the control       *)
(* operations that talk to the weather station, the background reader      *)
(* thread, and the station itself as the environment.                      *)
(*                                                                         *)
(* Threads: one control thread (the request handler that runs connect,     *)
(* disconnect, configure, query, change-baud ... one call at a time) and   *)
(* the reader thread started by start_reader_thread.  Every blocking call  *)
(* or sleep of the source is a step boundary.                              *)
(*                                                                         *)
(* Wall-clock loops are counted in reads: a loop bounded by a deadline     *)
(* gets a budget of reads that do not deliver what the loop waits for.     *)
(*                                                                         *)
(* Eight systems are specified.  Spec (FairSpec with fairness) follows the   *)
(* link lifecycle, with the reader pass kept to the handle, the lock, the  *)
(* selection and the totals.  SessionSpec follows every statement of a     *)
(* reader pass (health counters, message history, datagrams) through the   *)
(* operations of a session.  AggSpec runs _parse_nmea_for_dashboard alone  *)
(* on sequences of sentences with a moving clock.  CallSpec calls the      *)
(* framer, the coordinate decoder, the parser of the station's reports,    *)
(* the interval conversion of the configure routes and save_state followed *)
(* by load_state, each once on an input of a bounded set.  ThrottleSpec    *)
(* runs the reader of a connected session on a port whose readline raises. *)
(* StoreSpec follows save_state statement by statement on both threads,    *)
(* with state.json as the tokens it holds.  FaultSpec runs Connect and the *)
(* change of rate on a port whose writes, reads and reopens can raise.     *)
(* PoolSpec runs Connect and Disconnect from two request threads at once,  *)
(* down to the statements that stop and start the reader thread.           *)
(***************************************************************************)
EXTENDS Naturals, Integers, Sequences, FiniteSets, TLC

----------------------------------------------------------------------------
(* Bounds of the model *)

\* reads without a valid line that fit in _try_baud_rate's 3 s window
TryBudget == 2
\* consecutive empty 0.5 s reads that fit in the 2.5 s no-data watchdog
WatchBudget == 2
\* reads without a valid line that fit in the 5 s confirmation window
ConfirmBudget == 2
\* line reads that fit in query_sentence_config's 5 s window
QueryBudget == 2
\* lines the serial input buffer holds
MaxRx == 1
\* $PAMTR,EN lines the station answers one $PAMTC,EN,Q with
RespBurst == 1
\* cap of messages_received
MaxMsgs == 1
\* cap of streamed_messages
MaxStream == 1
\* sentences the reader takes in the session specification
MaxLines == 2
\* cap of the sum of the serial-health counters
MaxHealth == 2
\* the wall clock stops at this many seconds
MaxNow == 1352
\* sentences of one input sequence given to the aggregator
MaxFeed == 3
\* operations the control thread starts
MaxOps == 3

----------------------------------------------------------------------------
(* Program constants *)

NoBaud == 0
B4800 == 4800
B38400 == 38400
Bauds == {B4800, B38400}

\* keys of SUPPORTED_SENTENCES
SUPPORTED_SENTENCES ==
    {"DTM", "GGA", "GLL", "GSA", "GSV", "HDG", "HDT", "MDA", "MWD", "MWVR",
     "MWVT", "RMC", "ROT", "THS", "VTG", "VWR", "VWT", "XDRA", "XDRB", "XDRC",
     "XDRD", "XDRE", "XDRH", "XDRR", "XDRT", "XDRW", "ZDA"}

\* SUPPORTED_SENTENCES[id]['default_interval'] (10 for every id)
default_interval == 10

\* the required sentences in another order
REQUIRED_SENTENCES_M == <<"MWD", "MWVT", "HDT", "ROT", "ZDA">>

\* REQUIRED_SENTENCES, in the order of the source
REQUIRED_SENTENCES == <<"MWVT", "MWD", "HDT", "ROT", "ZDA">>

CONN_STATUS_DISCONNECTED == "disconnected"
CONN_STATUS_TRYING_4800 == "trying_4800"
CONN_STATUS_TRYING_38400 == "trying_38400"
CONN_STATUS_SWITCHING_BAUD == "switching_baud"
CONN_STATUS_ENABLING_SENTENCES == "enabling_sentences"
CONN_STATUS_CONNECTED == "connected"
CONN_STATUS_FAILED == "failed"

\* max_attempts of connect_serial
max_attempts == 6

\* self.history_duration, in seconds
history_duration == 900

\* self.max_history
max_history == 100

\* default_types of connect_serial
default_types ==
    {"HCHDG", "CHDG", "HCHDT", "WIMWD", "WIMWV", "GPGGA", "GPGA", "WIMDA"}

----------------------------------------------------------------------------
(* State *)

VARIABLES
    \* NMEAHandler fields
    serial_connection,      \* "None", or a pyserial object: "open" / "closed"
    ser_baud,               \* baudrate of that object (NoBaud when None)
    connection_status,
    detected_baud,          \* NoBaud for None
    connected_since,        \* <<>> for None
    messages_received,
    should_stop,
    serial_lock,            \* holder of _serial_lock: "free", "reader", "ctl"
    is_streaming,
    udp_socket,             \* TRUE when a socket object is held
    streamed_messages,
    selected_message_types,
    state,                  \* the in-memory configuration document
    state_file,             \* the document on disk
    sensor_data,
    sensor_history,
    \* the reader thread (_read_serial_loop)
    rpc,
    r_line,
    \* the control thread
    cpc,
    op,
    arg,
    ops,                    \* operations started so far
    attempt,
    current_baud,
    conn_open,              \* _try_baud_rate's local conn is open
    valid_count,
    budget,
    idx,
    changes,
    config,
    result,
    \* the weather station and the serial input buffer
    dev_mode,
    dev_obeys,
    dev_baud,
    dev_on,
    dev_pending,
    dev_resp,
    rx,
    \* history of the operation in progress
    attempt_log,
    status_log,
    cmd_log,
    open_mark,
    touch,
    \* the wall clock, in seconds
    now,
    \* the counters of self.serial_health
    serial_health,
    \* self.message_history, newest first
    message_history,
    \* the datagrams sent to the UDP peer
    udp_sent,
    \* self._last_serial_read_error_log, and the times of the throttled
    \* warnings written to the log
    last_serial_read_error_log,
    warn_log,
    \* the bytes of state.json on disk, and the position of each thread
    \* inside save_state
    disk,
    saving,
    \* a function of the source called on its own: the call and what it
    \* returned
    call,
    ret,
    \* the threads, where more than one request handler is followed:
    \* self.reader_thread (None, or the number of a thread), the position
    \* of every thread made from _read_serial_loop, and the position of
    \* every request handler
    reader_thread,
    readers,
    handler

handlerVars ==
    <<serial_connection, ser_baud, connection_status, detected_baud,
      connected_since, messages_received, should_stop, serial_lock>>
streamVars ==
    <<is_streaming, udp_socket, streamed_messages, selected_message_types>>
storeVars == <<state, state_file>>
sensorVars == <<sensor_data, sensor_history>>
readerVars == <<rpc, r_line>>
ctlVars ==
    <<cpc, op, arg, ops, attempt, current_baud, conn_open, valid_count, budget,
      idx, changes, config, result>>
devVars == <<dev_mode, dev_obeys, dev_baud, dev_on, dev_pending, dev_resp>>
logVars == <<attempt_log, status_log, cmd_log, open_mark>>

poolVars == <<reader_thread, readers, handler>>

benchVars ==
    <<last_serial_read_error_log, warn_log, disk, saving, call, ret,
      poolVars>>

obsVars == <<now, serial_health, message_history, udp_sent, benchVars>>

vars ==
    <<handlerVars, streamVars, storeVars, sensorVars, readerVars, ctlVars,
      devVars, rx, logVars, touch, obsVars>>

None == <<>>
Some(v) == <<v>>

----------------------------------------------------------------------------
(* The weather station (environment) *)

\* the station never emits, or it emits lines with gaps that a read may or may
\* not outlast
DevModes == {"silent", "emitting"}

\* wire types of the periodic sentences the station emits
PeriodicTypes == {"WIMWV"}
Garbage == "~"

\* A received line: its wire type (msg_type of the reader), its
\* comma-separated fields with the checksum cut off (fields[1] here is
\* fields[0] of the source), the bytes between '$' and '*', and the declared
\* checksum (None when the line carries none); win records that it arrived
\* during a sentence query
Sentence(t, fs, b, c) ==
    [type |-> t, win |-> FALSE, fields |-> <<"$" \o t>> \o fs, body |-> b,
     chk |-> c]

\* bitwise exclusive or of two bytes
RECURSIVE BitXor(_, _)
BitXor(a, b) ==
    IF a = 0 THEN b
    ELSE IF b = 0 THEN a
    ELSE (((a % 2) + (b % 2)) % 2) + 2 * BitXor(a \div 2, b \div 2)

\* "for b in body: calc ^= b"
RECURSIVE XorAll(_)
XorAll(bytes) ==
    IF bytes = <<>> THEN 0 ELSE BitXor(Head(bytes), XorAll(Tail(bytes)))

\* _nmea_checksum_ok: None without a checksum, else whether the XOR of the
\* body equals the declared value
nmea_checksum_ok(line) ==
    IF line.chk = None THEN None ELSE Some(XorAll(line.body) = line.chk[1])

\* the first bytes of the body of a sentence of the given wire type
Body(t) ==
    CASE t = "WIMWV" -> <<87, 73, 77>>
      [] t = "WIMWD" -> <<87, 73, 68>>
      [] t = "WIMDA" -> <<87, 77, 68>>
      [] t = "HCHDT" -> <<72, 67, 84>>
      [] t = "HCHDG" -> <<72, 67, 71>>
      [] t = "CHDG" -> <<67, 72, 68>>
      [] t = "YXXDR" -> <<89, 88, 82>>
      [] t = "TIROT" -> <<84, 73, 82>>
      [] t = "GPGGA" -> <<71, 80, 65>>
      [] t = "GPVTG" -> <<71, 80, 86>>
      [] t = "GPZDA" -> <<71, 80, 90>>
      [] OTHER -> <<80, 65>>

\* a sentence whose declared checksum is the right one
Good(t, fs) == Sentence(t, fs, Body(t), Some(XorAll(Body(t))))
\* the same sentence with one bit of the declared checksum flipped
Corrupt(t, fs) == Sentence(t, fs, Body(t), Some(BitXor(XorAll(Body(t)), 1)))
\* the same sentence cut before its '*'
Bare(t, fs) == Sentence(t, fs, Body(t), None)

\* the fields the station sends after the wire type
StationFields(t) ==
    IF t = "WIMWV" THEN <<"1", "R", "1", "N", "A">> ELSE <<>>

\* what a read returns: a line of the given wire type, or bytes received at
\* the wrong rate
Line(t, w) == [Good(t, StationFields(t)) EXCEPT !.win = w]
NoLine == [type |-> "", win |-> FALSE, fields |-> <<>>, body |-> <<>>,
           chk |-> None]

StartsWithDollar(line) == line.type # Garbage /\ line.type # ""

\* the rate the port is open at, NoBaud when no handle is open
OpenBaud ==
    IF conn_open THEN current_baud
    ELSE IF serial_connection = "open" THEN ser_baud
    ELSE NoBaud

BaudCmd(rate) == "$PAMTC,BAUD," \o ToString(rate)

\* a station that listens at the rate the command was written at obeys it
Hears(rate) == dev_mode # "silent" /\ dev_baud = rate

DevRecv(cmd, rate) ==
    /\ dev_on' = IF Hears(rate) /\ cmd = "$PAMTX,1" THEN TRUE
                 ELSE IF Hears(rate) /\ cmd = "$PAMTX" THEN FALSE
                 ELSE dev_on
    /\ dev_pending' =
          IF Hears(rate) /\ dev_obeys /\ cmd = BaudCmd(B38400) THEN B38400
          ELSE IF Hears(rate) /\ dev_obeys /\ cmd = BaudCmd(B4800) THEN B4800
          ELSE dev_pending
    /\ dev_resp' = IF Hears(rate) /\ cmd = "$PAMTC,EN,Q" THEN RespBurst
                   ELSE dev_resp
    /\ UNCHANGED <<dev_mode, dev_obeys, dev_baud>>

\* the query window: query_sentence_config has written $PAMTC,EN,Q and has
\* not returned
InQueryWindow == cpc \in {"q_read", "q_done"}

\* the station applies a baud command some time after it received it
DevSwitch ==
    /\ dev_pending # NoBaud
    /\ dev_baud' = dev_pending
    /\ dev_pending' = NoBaud
    /\ touch' = "none"
    /\ UNCHANGED <<handlerVars, streamVars, storeVars, sensorVars, readerVars,
                   ctlVars, dev_mode, dev_obeys, dev_on, dev_resp, rx, logVars>>
    /\ UNCHANGED obsVars

\* one line reaches the input buffer of the open port
DevEmit ==
    /\ OpenBaud # NoBaud
    /\ dev_mode # "silent"
    /\ Len(rx) < MaxRx
    /\ \/ /\ dev_resp > 0
          /\ dev_resp' = dev_resp - 1
          /\ rx' = Append(rx, Line(IF dev_baud = OpenBaud THEN "PAMTR"
                                   ELSE Garbage, InQueryWindow))
       \/ /\ dev_on
          /\ \E t \in PeriodicTypes :
                rx' = Append(rx, Line(IF dev_baud = OpenBaud THEN t
                                      ELSE Garbage, InQueryWindow))
          /\ UNCHANGED dev_resp
    /\ touch' = "none"
    /\ UNCHANGED <<handlerVars, streamVars, storeVars, sensorVars, readerVars,
                   ctlVars, dev_mode, dev_obeys, dev_baud, dev_on, dev_pending,
                   logVars>>
    /\ UNCHANGED obsVars

\* a blocking read times out only when nothing is buffered
MayTimeOut == rx = <<>>

----------------------------------------------------------------------------
(* Initial state: NMEAHandler.__init__ with no state file and no port *)

SubRecordFields ==
    [wind_apparent |-> {"speed_kts", "angle", "source", "timestamp"},
     wind_true |-> {"speed_kts", "angle", "direction_true",
                    "direction_magnetic", "source", "timestamp"},
     atmosphere |-> {"temperature_c", "humidity_pct", "pressure_bar",
                     "dew_point_c", "source", "timestamp"},
     attitude |-> {"heading_true", "heading_magnetic", "pitch_deg", "roll_deg",
                   "rate_of_turn", "source", "timestamp"},
     gps |-> {"latitude", "longitude", "altitude_m", "satellites",
              "fix_quality", "speed_kts", "course_true", "source", "timestamp"},
     time |-> {"utc_time", "utc_date", "source", "timestamp"}]

SubRecords == DOMAIN SubRecordFields

\* the counters of self.serial_health
HealthCounters ==
    {"read_timeouts", "empty_reads", "nodata_exceptions",
     "other_read_exceptions", "checksum_mismatch", "checksum_missing",
     "unmapped_messages"}

HistorySeries ==
    {"wind_apparent_speed", "wind_apparent_angle", "wind_true_speed",
     "wind_true_direction", "temperature", "humidity", "pressure", "heading",
     "pitch", "roll", "rate_of_turn", "gps_speed", "gps_course", "satellites"}

\* self.state of __init__; sentence_config is an insertion-ordered dict,
\* modelled as a sequence of [id, enabled, interval] with distinct ids
InitState ==
    [port |-> "None", baud_rate |-> B4800, is_streaming |-> FALSE,
     selected_message_types |-> {}, sentence_config |-> << >>]

\* sentence_config of the state file load_state finds: no file, or the file
\* an earlier run saved after one sentence was configured
SavedConfigs ==
    {<<>>, <<[id |-> "MWD", enabled |-> FALSE, interval |-> 5]>>}

\* arguments of the operation the control thread runs
NoArg ==
    [port |-> "None", pref |-> NoBaud, new |-> NoBaud, id |-> "",
     enabled |-> FALSE, interval |-> 0]

\* the handler after __init__, whatever the serial input holds
Constructed ==
    /\ serial_connection = "None"
    /\ ser_baud = NoBaud
    /\ connection_status = CONN_STATUS_DISCONNECTED
    /\ detected_baud = NoBaud
    /\ connected_since = None
    /\ messages_received = 0
    /\ should_stop = FALSE
    /\ serial_lock = "free"
    /\ is_streaming = FALSE
    /\ udp_socket = FALSE
    /\ streamed_messages = 0
    /\ sensor_data = [s \in SubRecords |-> [f \in SubRecordFields[s] |-> None]]
    /\ sensor_history = [k \in HistorySeries |-> <<>>]
    /\ rpc = "dead"
    /\ r_line = NoLine
    /\ cpc = "idle"
    /\ op = "none"
    /\ ops = 0
    /\ arg = NoArg
    /\ attempt = 0
    /\ current_baud = NoBaud
    /\ conn_open = FALSE
    /\ valid_count = 0
    /\ budget = 0
    /\ idx = 0
    /\ changes = <<>>
    /\ config = {}
    /\ result = "none"
    /\ dev_mode \in DevModes
    /\ dev_obeys \in BOOLEAN
    /\ dev_baud \in Bauds
    /\ dev_on = TRUE
    /\ dev_pending = NoBaud
    /\ dev_resp = 0
    /\ attempt_log = <<>>
    /\ status_log = <<>>
    /\ cmd_log = <<>>
    /\ open_mark = 0
    /\ touch = "none"
    /\ now = 0
    /\ serial_health = [c \in HealthCounters |-> 0]
    /\ message_history = <<>>
    /\ udp_sent = <<>>
    /\ last_serial_read_error_log = 0
    /\ warn_log = <<>>

\* one control thread and one reader, followed by cpc and rpc
OneControl ==
    /\ reader_thread = None
    /\ readers = <<>>
    /\ handler = <<>>

\* nothing is followed below the level of the operations: no save_state is
\* under way and no function is called on its own
Whole ==
    /\ disk = <<>>
    /\ saving = <<>>
    /\ call = None
    /\ ret = None
    /\ OneControl

\* load_state: no state file, or the file SavedConfigs describes
Init ==
    /\ Constructed
    /\ Whole
    /\ selected_message_types = {}
    /\ \E saved \in SavedConfigs :
          /\ state = [InitState EXCEPT !.sentence_config = saved]
          /\ state_file = IF saved = <<>> THEN None ELSE Some(state)
    /\ rx = <<>>

----------------------------------------------------------------------------
(* Helpers shared by the operations *)

\* every assignment to connection_status is logged for the operation
SetStatus(s) ==
    /\ connection_status' = s
    /\ status_log' = Append(status_log, s)

\* how the control thread uses self.serial_connection in a step: with the
\* serial mutex held, or without it
Touched == IF serial_lock = "ctl" THEN "locked" ELSE "unlocked"

\* serial write of one command line at the given port rate
Write(cmd, rate) ==
    /\ cmd_log' = Append(cmd_log, cmd)
    /\ DevRecv(cmd, rate)
    /\ touch' = Touched

\* the document save_state writes: self.state with the two mirrored fields
Saved(st, sel, streaming) ==
    [st EXCEPT !.selected_message_types = sel, !.is_streaming = streaming]

EnableCmd(id, flag, interval) ==
    "$PAMTC,EN," \o id \o "," \o ToString(flag) \o "," \o ToString(interval)

\* five lines required at either rate
MinMessages_M(baud) == IF baud = B4800 THEN 5 ELSE 5

\* min_messages of _try_baud_rate
MinMessages(baud) == IF baud = B4800 THEN 5 ELSE 1

\* an order that ignores the preferred rate
BaudRates_M(pref) == <<B4800, B38400>>

\* baud_rates of connect_serial
BaudRates(pref) ==
    IF pref = B38400 THEN <<B38400, B4800>> ELSE <<B4800, B38400>>

\* baud_rates[attempt % 2]
AttemptBaud(pref, n) == BaudRates(pref)[(n % 2) + 1]

\* the rate connect_serial records on success
FinalBaud == B38400

\* a reopen at the rate the port was closed at
ReopenBaud_M == B4800

\* the rate _switch_to_38400 reopens the port at
ReopenBaud == B38400

\* a status that ignores the rate tried
TryingStatus_M(baud) == CONN_STATUS_TRYING_38400

TryingStatus(baud) ==
    IF baud = B4800 THEN CONN_STATUS_TRYING_4800
    ELSE CONN_STATUS_TRYING_38400

\* locals of the operation the control thread runs
locals == <<attempt, current_baud, valid_count, budget, idx, changes, config>>

\* the operation returns r; its locals die with it
Return(r) ==
    /\ cpc' = "idle"
    /\ result' = r
    /\ attempt' = 0
    /\ current_baud' = NoBaud
    /\ valid_count' = 0
    /\ budget' = 0
    /\ idx' = 0
    /\ changes' = <<>>
    /\ config' = {}

----------------------------------------------------------------------------
(* connect_serial *)

\* a device path that exists and opens, one that does not exist, and one that
\* exists but cannot be opened (held by another process)
Ports == {"P", "X", "B"}
PathExists(port) == port # "X"
\* serial.Serial(port=...) returns a handle, or raises
Openable(port) == port = "P"
PrefRates == {NoBaud, B4800, B38400}

\* entry: the cleanup test of an existing connection
connect_serial(port, pref) ==
    /\ cpc = "idle"
    /\ ops < MaxOps
    /\ ops' = ops + 1
    /\ op' = "connect"
    /\ arg' = [NoArg EXCEPT !.port = port, !.pref = pref]
    /\ result' = "none"
    /\ attempt_log' = <<>>
    /\ status_log' = <<>>
    /\ cmd_log' = <<>>
    /\ open_mark' = 0
    /\ cpc' = IF serial_connection = "open" THEN "cs_stop" ELSE "cs_exists"
    /\ touch' = "none"
    /\ UNCHANGED <<handlerVars, streamVars, storeVars, sensorVars, readerVars,
                   attempt, current_baud, conn_open, valid_count, budget, idx,
                   changes, config, devVars, rx>>
    /\ UNCHANGED obsVars

\* stop_reader_thread: set the flag, join only a live thread
stop_reader_thread(from, join, next) ==
    /\ cpc = from
    /\ should_stop' = TRUE
    /\ cpc' = IF rpc # "dead" THEN join ELSE next
    /\ touch' = "none"
    /\ UNCHANGED <<serial_connection, ser_baud, connection_status,
                   detected_baud, connected_since, messages_received,
                   serial_lock, streamVars, storeVars, sensorVars, readerVars,
                   op, arg, ops, attempt, current_baud, conn_open, valid_count,
                   budget, idx, changes, config, result, devVars, rx, logVars>>
    /\ UNCHANGED obsVars

\* the reader is inside the readline, which can outlast the join deadline
ReaderBlocked == rpc = "in_read"

\* reader_thread.join(timeout=1.0): returns when the reader has exited, or
\* at the deadline while the reader is still inside a blocking call
JoinReturns == rpc = "dead" \/ ReaderBlocked

join_reader(from, next) ==
    /\ cpc = from
    /\ JoinReturns
    /\ cpc' = next
    /\ touch' = "none"
    /\ UNCHANGED <<handlerVars, streamVars, storeVars, sensorVars, readerVars,
                   op, arg, ops, attempt, current_baud, conn_open, valid_count,
                   budget, idx, changes, config, result, devVars, rx, logVars>>
    /\ UNCHANGED obsVars

cs_stop == stop_reader_thread("cs_stop", "cs_join", "cs_close")
cs_join == join_reader("cs_join", "cs_close")

cs_close ==
    /\ cpc = "cs_close"
    /\ serial_connection' = "None"
    /\ ser_baud' = NoBaud
    /\ rx' = <<>>
    /\ cpc' = "cs_exists"
    /\ touch' = Touched
    /\ UNCHANGED <<connection_status, detected_baud, connected_since,
                   messages_received, should_stop, serial_lock, streamVars,
                   storeVars, sensorVars, readerVars, op, arg, ops, attempt,
                   current_baud, conn_open, valid_count, budget, idx, changes,
                   config, result, devVars, logVars>>
    /\ UNCHANGED obsVars

\* Path(port).exists(), then the set-up of the attempt loop
cs_exists ==
    /\ cpc = "cs_exists"
    /\ IF PathExists(arg.port)
       THEN /\ detected_baud' = NoBaud
            /\ attempt' = 0
            /\ cpc' = "cs_attempt"
            /\ UNCHANGED <<connection_status, status_log, result,
                           current_baud, valid_count, budget, idx, changes,
                           config>>
       ELSE /\ SetStatus(CONN_STATUS_FAILED)
            /\ Return("fail")
            /\ UNCHANGED detected_baud
    /\ touch' = "none"
    /\ UNCHANGED <<serial_connection, ser_baud, connected_since,
                   messages_received, should_stop, serial_lock, streamVars,
                   storeVars, sensorVars, readerVars, op, arg, ops, conn_open,
                   devVars, rx, attempt_log, cmd_log, open_mark>>
    /\ UNCHANGED obsVars

\* head of the loop "for attempt in range(max_attempts)", and its exhaustion
cs_attempt ==
    /\ cpc = "cs_attempt"
    /\ IF attempt < max_attempts
       THEN /\ current_baud' = AttemptBaud(arg.pref, attempt)
            /\ SetStatus(TryingStatus(current_baud'))
            /\ cpc' = "tb_open"
            /\ UNCHANGED <<result, attempt, valid_count, budget, idx,
                           changes, config>>
       ELSE /\ SetStatus(CONN_STATUS_FAILED)
            /\ Return("fail")
    /\ touch' = "none"
    /\ UNCHANGED <<serial_connection, ser_baud, detected_baud, connected_since,
                   messages_received, should_stop, serial_lock, streamVars,
                   storeVars, sensorVars, readerVars, op, arg, ops, conn_open,
                   devVars, rx, attempt_log, cmd_log, open_mark>>
    /\ UNCHANGED obsVars

\* the attempt is given up: conn.close(), return False, next attempt
GiveUp ==
    /\ conn_open' = FALSE
    /\ attempt' = attempt + 1
    /\ cpc' = "cs_attempt"

\* _try_baud_rate: open the port and wake the station; when serial.Serial
\* raises (the port cannot be opened, or a handle left open by an earlier
\* attempt holds its exclusive lock), the except clause returns (False, None)
\* to the attempt loop
tb_open ==
    /\ cpc = "tb_open"
    /\ attempt_log' = Append(attempt_log, current_baud)
    /\ IF Openable(arg.port) /\ ~conn_open
       THEN /\ conn_open' = TRUE
            /\ rx' = <<>>
            /\ open_mark' = Len(cmd_log)
            /\ cmd_log' = Append(cmd_log, "$PAMTX,1")
            /\ DevRecv("$PAMTX,1", current_baud)
            /\ valid_count' = 0
            /\ budget' = TryBudget
            /\ cpc' = "tb_read"
            /\ UNCHANGED attempt
       ELSE /\ attempt' = attempt + 1
            /\ cpc' = "cs_attempt"
            /\ UNCHANGED <<conn_open, rx, open_mark, cmd_log, devVars,
                           valid_count, budget>>
    /\ touch' = "local"
    /\ UNCHANGED <<handlerVars, streamVars, storeVars, sensorVars, readerVars,
                   op, arg, ops, current_baud, idx, changes, config,
                   result, status_log>>
    /\ UNCHANGED obsVars

\* the attempt is accepted: lines 1328-1330 of connect_serial
Accept ==
    /\ conn_open' = FALSE
    /\ serial_connection' = "open"
    /\ ser_baud' = current_baud
    /\ detected_baud' = current_baud
    /\ state' = [state EXCEPT !.port = arg.port]
    /\ cpc' = IF current_baud = B4800 THEN "sw_begin" ELSE "en_begin"

\* _try_baud_rate: one pass of the read loop
tb_read ==
    /\ cpc = "tb_read"
    /\ \/ /\ rx # <<>>
          /\ StartsWithDollar(Head(rx))
          /\ valid_count' = valid_count + 1
          /\ IF valid_count' >= MinMessages(current_baud)
             THEN /\ Accept
                  /\ rx' = Tail(rx)
                  /\ UNCHANGED <<attempt, budget>>
             ELSE /\ rx' = Tail(rx)
                  /\ UNCHANGED <<conn_open, serial_connection, ser_baud,
                                 detected_baud, state, cpc, attempt, budget>>
       \/ /\ \/ rx # <<>> /\ ~StartsWithDollar(Head(rx))
             \/ MayTimeOut
          /\ budget' = budget - 1
          /\ IF budget' = 0
             THEN /\ GiveUp
                  /\ rx' = <<>>
             ELSE /\ rx' = IF rx # <<>> THEN Tail(rx) ELSE rx
                  /\ UNCHANGED <<conn_open, attempt, cpc>>
          /\ UNCHANGED <<serial_connection, ser_baud, detected_baud, state,
                         valid_count>>
    /\ touch' = "local"
    /\ UNCHANGED <<connection_status, connected_since, messages_received,
                   should_stop, serial_lock, streamVars, state_file,
                   sensorVars, readerVars, op, arg, ops, current_baud, idx,
                   changes, config, result, devVars, logVars>>
    /\ UNCHANGED obsVars

----------------------------------------------------------------------------
(* _switch_to_38400 *)

\* status, then step 1: $PAMTX,1 at 4800
sw_begin ==
    /\ cpc = "sw_begin"
    /\ SetStatus(CONN_STATUS_SWITCHING_BAUD)
    /\ Write("$PAMTX,1", ser_baud)
    /\ cpc' = "sw_baud"
    /\ UNCHANGED <<serial_connection, ser_baud, detected_baud, connected_since,
                   messages_received, should_stop, serial_lock, streamVars,
                   storeVars, sensorVars, readerVars, op, arg, ops, attempt,
                   current_baud, conn_open, valid_count, budget, idx, changes,
                   config, result, rx, attempt_log, open_mark>>
    /\ UNCHANGED obsVars

\* step 2: the baud command; the watchdog of step 3 is armed
sw_baud ==
    /\ cpc = "sw_baud"
    /\ Write(BaudCmd(B38400), ser_baud)
    /\ budget' = WatchBudget
    /\ cpc' = "sw_watch"
    /\ UNCHANGED <<handlerVars, streamVars, storeVars, sensorVars, readerVars,
                   op, arg, ops, attempt, current_baud, conn_open, valid_count,
                   idx, changes, config, result, rx, attempt_log, status_log,
                   open_mark>>
    /\ UNCHANGED obsVars

\* step 3: read at 4800 until a garbled line, or until no data arrives for the
\* whole watchdog; every read that returns data re-arms the watchdog
sw_watch ==
    /\ cpc = "sw_watch"
    /\ \/ /\ rx # <<>>
          /\ rx' = Tail(rx)
          /\ budget' = WatchBudget
          /\ cpc' = IF StartsWithDollar(Head(rx)) THEN "sw_watch"
                    ELSE "sw_close"
       \/ /\ MayTimeOut
          /\ budget' = budget - 1
          /\ cpc' = IF budget' = 0 THEN "sw_close" ELSE "sw_watch"
          /\ UNCHANGED rx
    /\ touch' = Touched
    /\ UNCHANGED <<handlerVars, streamVars, storeVars, sensorVars, readerVars,
                   op, arg, ops, attempt, current_baud, conn_open, valid_count,
                   idx, changes, config, result, devVars, logVars>>
    /\ UNCHANGED obsVars

\* step 4, first half: close
sw_close ==
    /\ cpc = "sw_close"
    /\ serial_connection' = "closed"
    /\ rx' = <<>>
    /\ cpc' = "sw_reopen"
    /\ touch' = Touched
    /\ UNCHANGED <<ser_baud, connection_status, detected_baud, connected_since,
                   messages_received, should_stop, serial_lock, streamVars,
                   storeVars, sensorVars, readerVars, op, arg, ops, attempt,
                   current_baud, conn_open, valid_count, budget, idx, changes,
                   config, result, devVars, logVars>>
    /\ UNCHANGED obsVars

\* step 4, second half: reopen at 38400 and record the rate
sw_reopen ==
    /\ cpc = "sw_reopen"
    /\ serial_connection' = "open"
    /\ ser_baud' = ReopenBaud
    /\ state' = [state EXCEPT !.baud_rate = B38400]
    /\ rx' = <<>>
    /\ budget' = ConfirmBudget
    /\ cpc' = "sw_confirm"
    /\ touch' = Touched
    /\ UNCHANGED <<connection_status, detected_baud, connected_since,
                   messages_received, should_stop, serial_lock, streamVars,
                   state_file, sensorVars, readerVars, op, arg, ops, attempt,
                   current_baud, conn_open, valid_count, idx, changes, config,
                   result, devVars, logVars>>
    /\ UNCHANGED obsVars

\* step 5: one valid line within the confirmation window
sw_confirm ==
    /\ cpc = "sw_confirm"
    /\ \/ /\ rx # <<>>
          /\ StartsWithDollar(Head(rx))
          /\ rx' = Tail(rx)
          /\ cpc' = "en_begin"
          /\ UNCHANGED budget
       \/ /\ \/ rx # <<>> /\ ~StartsWithDollar(Head(rx))
             \/ MayTimeOut
          /\ rx' = IF rx # <<>> THEN Tail(rx) ELSE rx
          /\ budget' = budget - 1
          /\ cpc' = IF budget' = 0 THEN "sw_failed" ELSE "sw_confirm"
    /\ touch' = Touched
    /\ UNCHANGED <<handlerVars, streamVars, storeVars, sensorVars, readerVars,
                   op, arg, ops, attempt, current_baud, conn_open, valid_count,
                   idx, changes, config, result, devVars, logVars>>
    /\ UNCHANGED obsVars

\* a failed switch that ends the Connect
sw_failed_M ==
    /\ cpc = "sw_failed"
    /\ serial_connection' = "None"
    /\ ser_baud' = NoBaud
    /\ rx' = <<>>
    /\ SetStatus(CONN_STATUS_FAILED)
    /\ Return("fail")
    /\ touch' = Touched
    /\ UNCHANGED <<detected_baud, connected_since, messages_received,
                   should_stop, serial_lock, streamVars, storeVars, sensorVars,
                   readerVars, op, arg, ops, conn_open, devVars, attempt_log,
                   cmd_log, open_mark>>
    /\ UNCHANGED obsVars

\* connect_serial after a failed switch: close, unset, next attempt
sw_failed ==
    /\ cpc = "sw_failed"
    /\ serial_connection' = "None"
    /\ ser_baud' = NoBaud
    /\ rx' = <<>>
    /\ attempt' = attempt + 1
    /\ cpc' = "cs_attempt"
    /\ touch' = Touched
    /\ UNCHANGED <<connection_status, detected_baud, connected_since,
                   messages_received, should_stop, serial_lock, streamVars,
                   storeVars, sensorVars, readerVars, op, arg, ops, current_baud,
                   conn_open, valid_count, budget, idx, changes, config,
                   result, devVars, logVars>>
    /\ UNCHANGED obsVars

----------------------------------------------------------------------------
(* enable_required_sentences *)

\* status, the open test, and $PAMTX,1
en_begin ==
    /\ cpc = "en_begin"
    /\ SetStatus(CONN_STATUS_ENABLING_SENTENCES)
    /\ IF serial_connection = "open"
       THEN /\ Write("$PAMTX,1", ser_baud)
            /\ idx' = 1
            /\ cpc' = "en_write"
       ELSE /\ cpc' = "rp_begin"
            /\ touch' = "none"
            /\ UNCHANGED <<idx, cmd_log, devVars>>
    /\ UNCHANGED <<serial_connection, ser_baud, detected_baud, connected_since,
                   messages_received, should_stop, serial_lock, streamVars,
                   storeVars, sensorVars, readerVars, op, arg, ops, attempt,
                   current_baud, conn_open, valid_count, budget, changes,
                   config, result, rx, attempt_log, open_mark>>
    /\ UNCHANGED obsVars

\* one $PAMTC,EN,<id>,1,<default_interval> per required sentence
en_write ==
    /\ cpc = "en_write"
    /\ Write(EnableCmd(REQUIRED_SENTENCES[idx], 1, default_interval), ser_baud)
    /\ idx' = idx + 1
    /\ cpc' = IF idx = Len(REQUIRED_SENTENCES) THEN "rp_begin" ELSE "en_write"
    /\ UNCHANGED <<handlerVars, streamVars, storeVars, sensorVars, readerVars,
                   op, arg, ops, attempt, current_baud, conn_open, valid_count,
                   budget, changes, config, result, rx, attempt_log,
                   status_log, open_mark>>
    /\ UNCHANGED obsVars

----------------------------------------------------------------------------
(* configure_sentences_batch, also the replay of connect_serial *)

\* sentence_config[id] = {enabled, interval}: update in place or insert last
SetConfig(cfg, id, enabled, interval) ==
    IF \E i \in 1..Len(cfg) : cfg[i].id = id
    THEN [i \in 1..Len(cfg) |->
            IF cfg[i].id = id
            THEN [id |-> id, enabled |-> enabled, interval |-> interval]
            ELSE cfg[i]]
    ELSE Append(cfg, [id |-> id, enabled |-> enabled, interval |-> interval])

Known(c) == c.id \in SUPPORTED_SENTENCES

\* the changes connect_serial builds from the saved sentence_config
ReplayChanges(saved) == SelectSeq(saved, Known)

\* interval None falls back to the registry default
IntervalOrDefault(interval) ==
    IF interval = 0 THEN default_interval ELSE interval

Flag(enabled) == IF enabled THEN 1 ELSE 0

rp_begin ==
    /\ cpc = "rp_begin"
    /\ changes' = ReplayChanges(state.sentence_config)
    /\ cpc' = IF changes' # <<>> THEN "bt_begin" ELSE "cs_reader"
    /\ touch' = "none"
    /\ UNCHANGED <<handlerVars, streamVars, storeVars, sensorVars, readerVars,
                   op, arg, ops, attempt, current_baud, conn_open, valid_count,
                   budget, idx, config, result, devVars, rx, logVars>>
    /\ UNCHANGED obsVars

\* the open test, then "with self._serial_lock"
bt_begin ==
    /\ cpc = "bt_begin"
    /\ IF serial_connection # "open"
       THEN /\ IF op = "connect"
               THEN /\ cpc' = "cs_reader"
                    /\ UNCHANGED <<result, locals>>
               ELSE Return("fail")
            /\ UNCHANGED serial_lock
       ELSE /\ serial_lock = "free"
            /\ serial_lock' = "ctl"
            /\ idx' = 1
            /\ config' = {}
            /\ cpc' = "bt_write"
            /\ UNCHANGED <<result, attempt, current_baud, valid_count,
                           budget, changes>>
    /\ touch' = "none"
    /\ UNCHANGED <<serial_connection, ser_baud, connection_status,
                   detected_baud, connected_since, messages_received,
                   should_stop, streamVars, storeVars, sensorVars, readerVars,
                   op, arg, ops, conn_open, devVars, rx, logVars>>
    /\ UNCHANGED obsVars

\* one change of the batch: an unknown id is skipped, a known one is written
\* and recorded in sentence_config
bt_write ==
    /\ cpc = "bt_write"
    /\ LET ch == changes[idx] IN
       IF Known(ch)
       THEN /\ Write(EnableCmd(ch.id, Flag(ch.enabled),
                               IntervalOrDefault(ch.interval)), ser_baud)
            /\ state' = [state EXCEPT !.sentence_config =
                           SetConfig(@, ch.id, ch.enabled,
                                     IntervalOrDefault(ch.interval))]
            /\ config' = config \cup {ch.id}
       ELSE /\ touch' = "none"
            /\ UNCHANGED <<state, config, cmd_log, devVars>>
    /\ idx' = idx + 1
    /\ cpc' = IF idx = Len(changes) THEN "bt_done" ELSE "bt_write"
    /\ UNCHANGED <<handlerVars, streamVars, state_file, sensorVars,
                   readerVars, op, arg, ops, attempt, current_baud, conn_open,
                   valid_count, budget, changes, result, rx, attempt_log,
                   status_log, open_mark>>
    /\ UNCHANGED obsVars

\* leave the lock; save_state when something was applied
bt_done ==
    /\ cpc = "bt_done"
    /\ serial_lock' = "free"
    /\ IF config # {}
       THEN /\ state' = Saved(state, selected_message_types, is_streaming)
            /\ state_file' = Some(state')
       ELSE UNCHANGED storeVars
    /\ IF op = "connect"
       THEN /\ cpc' = "cs_reader"
            /\ UNCHANGED <<result, locals>>
       ELSE Return(IF \A i \in 1..Len(changes) : Known(changes[i])
                   THEN "ok" ELSE "fail")
    /\ touch' = "none"
    /\ UNCHANGED <<serial_connection, ser_baud, connection_status,
                   detected_baud, connected_since, messages_received,
                   should_stop, streamVars, sensorVars, readerVars, op, arg, ops,
                   conn_open, devVars, rx, logVars>>
    /\ UNCHANGED obsVars

----------------------------------------------------------------------------
(* connect_serial, after the negotiation *)

\* start_reader_thread: a new thread only when none is alive
start_reader_thread ==
    /\ IF rpc = "dead"
       THEN /\ should_stop' = FALSE
            /\ rpc' = "loop"
       ELSE UNCHANGED <<should_stop, rpc>>

cs_reader ==
    /\ cpc = "cs_reader"
    /\ start_reader_thread
    /\ cpc' = "cs_state"
    /\ touch' = "none"
    /\ UNCHANGED <<serial_connection, ser_baud, connection_status,
                   detected_baud, connected_since, messages_received,
                   serial_lock, streamVars, storeVars, sensorVars, r_line,
                   op, arg, ops, attempt, current_baud, conn_open, valid_count,
                   budget, idx, changes, config, result, devVars, rx, logVars>>
    /\ UNCHANGED obsVars

\* "Update state": baud_rate, save_state, connected_since, status connected
cs_state ==
    /\ cpc = "cs_state"
    /\ state' = Saved([state EXCEPT !.baud_rate = FinalBaud],
                      selected_message_types, is_streaming)
    /\ state_file' = Some(state')
    /\ connected_since' = Some("now")
    /\ SetStatus(CONN_STATUS_CONNECTED)
    /\ cpc' = "cs_defaults"
    /\ touch' = "none"
    /\ UNCHANGED <<serial_connection, ser_baud, detected_baud,
                   messages_received, should_stop, serial_lock, streamVars,
                   sensorVars, readerVars, op, arg, ops, attempt, current_baud,
                   conn_open, valid_count, budget, idx, changes, config,
                   result, devVars, rx, attempt_log, cmd_log, open_mark>>
    /\ UNCHANGED obsVars

\* the default selection when nothing is selected, with its save_state
cs_defaults ==
    /\ cpc = "cs_defaults"
    /\ IF selected_message_types = {}
       THEN /\ selected_message_types' = default_types
            /\ state' = Saved(state, default_types, is_streaming)
            /\ state_file' = Some(state')
       ELSE UNCHANGED <<selected_message_types, storeVars>>
    /\ cpc' = "cs_stream"
    /\ touch' = "none"
    /\ UNCHANGED <<handlerVars, is_streaming, udp_socket, streamed_messages,
                   sensorVars, readerVars, op, arg, ops, attempt, current_baud,
                   conn_open, valid_count, budget, idx, changes, config,
                   result, devVars, rx, logVars>>
    /\ UNCHANGED obsVars

\* a start_streaming that resets the counter on every call
StartStreaming_M ==
    /\ udp_socket' = TRUE
    /\ streamed_messages' = 0
    /\ is_streaming' = TRUE
    /\ state' = Saved(state, selected_message_types, TRUE)
    /\ state_file' = Some(state')

\* start_streaming: the socket, the counter reset on a real start, save_state
StartStreaming ==
    /\ udp_socket' = TRUE
    /\ streamed_messages' = IF is_streaming THEN streamed_messages ELSE 0
    /\ is_streaming' = TRUE
    /\ state' = Saved(state, selected_message_types, TRUE)
    /\ state_file' = Some(state')

\* start_streaming(), then "return True, ..."
cs_stream ==
    /\ cpc = "cs_stream"
    /\ StartStreaming
    /\ Return("ok")
    /\ touch' = "none"
    /\ UNCHANGED <<handlerVars, selected_message_types, sensorVars,
                   readerVars, op, arg, ops, conn_open, devVars, rx, logVars>>
    /\ UNCHANGED obsVars

----------------------------------------------------------------------------
(* _read_serial_loop *)

\* float(s) and int(s) of the numerals that occur in the sentences
Number(s) == CASE s = "1" -> 1 [] s = "2" -> 2 [] s = "7" -> 7 [] s = "9" -> 9

\* "float(f) if f else None"
NumberOrNone(s) == IF s = "" THEN None ELSE Some(Number(s))

\* fields[i] of the source
Field(line, i) == line.fields[i + 1]

\* _parse_nmea_coord on a DDMM.M string: degrees plus minutes / 60, negative
\* for S and W; in tenths of a degree
Coord(s) ==
    CASE s = "4830.0" -> [deg |-> 48, min |-> 30]
      [] s = "01130.0" -> [deg |-> 11, min |-> 30]
parse_nmea_coord(s, direction) ==
    LET tenths == (Coord(s).deg * 10) + (Coord(s).min \div 6)
    IN  Some(IF direction \in {"S", "W"} THEN 0 - tenths ELSE tenths)

\* quality_names.get(fix_quality, str(fix_quality))
QualityName(q) ==
    CASE q = 0 -> "Invalid" [] q = 1 -> "GPS Fix" [] q = 2 -> "DGPS"
      [] q = 4 -> "RTK Fixed" [] q = 5 -> "RTK Float" [] OTHER -> ToString(q)

\* s.zfill(2) of a day or month
ZFill(s) == IF s \in {"1", "2", "7", "9"} THEN "0" \o s ELSE s

\* hhmmss as hh:mm:ss, for the time strings of six characters that occur
UtcTime(s) == CASE s = "120000" -> "12:00:00"

\* the (name, value) groups of a YXXDR sentence that carry a value, from
\* group i on: "while i + 3 < len(fields)"
RECURSIVE XdrGroups(_, _)
XdrGroups(line, i) ==
    IF i + 3 < Len(line.fields)
    THEN (IF Field(line, i + 1) # ""
          THEN <<[name |-> Field(line, i + 3),
                  value |-> Number(Field(line, i + 1))]>>
          ELSE <<>>) \o XdrGroups(line, i + 4)
    ELSE <<>>

RECURSIVE XdrData(_, _, _)
XdrData(att, groups, ts) ==
    IF groups = <<>> THEN att
    ELSE LET g == Head(groups)
             next ==
                 IF g.name = "PTCH"
                 THEN [att EXCEPT !.pitch_deg = Some(g.value),
                                  !.source = Some("YXXDR"),
                                  !.timestamp = Some(ts)]
                 ELSE IF g.name = "ROLL"
                 THEN [att EXCEPT !.roll_deg = Some(g.value),
                                  !.source = Some("YXXDR"),
                                  !.timestamp = Some(ts)]
                 ELSE att
         IN  XdrData(next, Tail(groups), ts)

\* the tests that guard each branch of _parse_nmea_for_dashboard
WindValid(line) ==
    line.type = "WIMWV" /\ Len(line.fields) >= 6 /\ Field(line, 5) = "A"
HeadingValid(line) == Len(line.fields) >= 2 /\ Field(line, 1) # ""
RotValid(line) ==
    /\ line.type = "TIROT"
    /\ Len(line.fields) >= 3
    /\ Field(line, 2) = "A"
    /\ Field(line, 1) # ""

\* a GPVTG that takes the source whatever it was
VtgTakesSource_M(gps) == TRUE

\* "if self.sensor_data['gps']['source'] != 'GPGGA'"
VtgTakesSource(gps) == gps.source # Some("GPGGA")

\* _parse_nmea_for_dashboard: the snapshot after the sentence, read at time ts
ParseDashboard(sd, line, ts) ==
    IF WindValid(line)
    THEN LET angle == NumberOrNone(Field(line, 1))
             speed == NumberOrNone(Field(line, 3))
         IN  IF Field(line, 2) = "R"
             THEN [sd EXCEPT !.wind_apparent =
                      [@ EXCEPT !.angle = angle, !.speed_kts = speed,
                                !.source = Some("WIMWV"),
                                !.timestamp = Some(ts)]]
             ELSE IF Field(line, 2) = "T"
             THEN [sd EXCEPT !.wind_true =
                      [@ EXCEPT !.angle = angle, !.speed_kts = speed,
                                !.source = Some("WIMWV"),
                                !.timestamp = Some(ts)]]
             ELSE sd
    ELSE IF line.type = "WIMWD" /\ Len(line.fields) >= 8
    THEN LET speed == NumberOrNone(Field(line, 5))
         IN  [sd EXCEPT !.wind_true =
                 [@ EXCEPT !.direction_true = NumberOrNone(Field(line, 1)),
                           !.direction_magnetic = NumberOrNone(Field(line, 3)),
                           !.speed_kts = IF speed # None THEN speed ELSE @,
                           !.source = Some("WIMWD"),
                           !.timestamp = Some(ts)]]
    ELSE IF line.type = "WIMDA" /\ Len(line.fields) >= 12
    THEN [sd EXCEPT !.atmosphere =
             [@ EXCEPT !.pressure_bar = NumberOrNone(Field(line, 3)),
                       !.temperature_c = NumberOrNone(Field(line, 5)),
                       !.humidity_pct = NumberOrNone(Field(line, 9)),
                       !.dew_point_c = NumberOrNone(Field(line, 11)),
                       !.source = Some("WIMDA"),
                       !.timestamp = Some(ts)]]
    ELSE IF line.type = "HCHDT" /\ HeadingValid(line)
    THEN [sd EXCEPT !.attitude =
             [@ EXCEPT !.heading_true = Some(Number(Field(line, 1))),
                       !.source = Some("HCHDT"),
                       !.timestamp = Some(ts)]]
    ELSE IF line.type \in {"HCHDG", "CHDG"} /\ HeadingValid(line)
    THEN LET att == [sd.attitude EXCEPT
                        !.heading_magnetic = Some(Number(Field(line, 1)))]
         IN  [sd EXCEPT !.attitude =
                 IF att.source # Some("HCHDT")
                 THEN [att EXCEPT !.source = Some(line.type),
                                  !.timestamp = Some(ts)]
                 ELSE att]
    ELSE IF line.type = "YXXDR"
    THEN [sd EXCEPT !.attitude = XdrData(@, XdrGroups(line, 1), ts)]
    ELSE IF RotValid(line)
    THEN LET att == [sd.attitude EXCEPT
                        !.rate_of_turn = Some(Number(Field(line, 1)))]
         IN  [sd EXCEPT !.attitude =
                 IF att.source \notin {Some("HCHDT"), Some("YXXDR")}
                 THEN [att EXCEPT !.source = Some("TIROT"),
                                  !.timestamp = Some(ts)]
                 ELSE att]
    ELSE IF line.type = "GPGGA" /\ Len(line.fields) >= 10
    THEN [sd EXCEPT !.gps =
             [@ EXCEPT
                 !.latitude = IF Field(line, 2) # ""
                              THEN parse_nmea_coord(Field(line, 2),
                                                    Field(line, 3))
                              ELSE None,
                 !.longitude = IF Field(line, 4) # ""
                               THEN parse_nmea_coord(Field(line, 4),
                                                     Field(line, 5))
                               ELSE None,
                 !.fix_quality =
                     Some(QualityName(IF Field(line, 6) # ""
                                      THEN Number(Field(line, 6)) ELSE 0)),
                 !.satellites = NumberOrNone(Field(line, 7)),
                 !.altitude_m = NumberOrNone(Field(line, 9)),
                 !.source = Some("GPGGA"),
                 !.timestamp = Some(ts)]]
    ELSE IF line.type = "GPVTG" /\ Len(line.fields) >= 6
    THEN LET gps == [sd.gps EXCEPT
                        !.course_true = NumberOrNone(Field(line, 1)),
                        !.speed_kts = NumberOrNone(Field(line, 5))]
         IN  [sd EXCEPT !.gps =
                 IF VtgTakesSource(gps)
                 THEN [gps EXCEPT !.source = Some("GPVTG"),
                                  !.timestamp = Some(ts)]
                 ELSE gps]
    ELSE IF line.type = "GPZDA" /\ Len(line.fields) >= 5
    THEN [sd EXCEPT !.time =
             [@ EXCEPT
                 !.utc_time = IF Field(line, 1) # ""
                              THEN Some(UtcTime(Field(line, 1))) ELSE @,
                 !.utc_date =
                     IF Field(line, 2) # "" /\ Field(line, 3) # ""
                        /\ Field(line, 4) # ""
                     THEN Some(Field(line, 4) \o "-" \o ZFill(Field(line, 3))
                               \o "-" \o ZFill(Field(line, 2)))
                     ELSE @,
                 !.source = Some("GPZDA"),
                 !.timestamp = Some(ts)]]
    ELSE sd

\* a history that keeps every entry
RecordHistory_M(h, key, v, ts) ==
    IF v = None THEN h
    ELSE [h EXCEPT ![key] = Append(@, [t |-> ts, v |-> v])]

\* _record_history at time ts: nothing for None; else append, then keep the
\* entries not older than history_duration
RecordHistory(h, key, v, ts) ==
    IF v = None THEN h
    ELSE [h EXCEPT ![key] =
             SelectSeq(Append(@, [t |-> ts, v |-> v]),
                       LAMBDA e : e.t >= ts - history_duration)]

RECURSIVE XdrHistory(_, _, _)
XdrHistory(h, groups, ts) ==
    IF groups = <<>> THEN h
    ELSE LET g == Head(groups)
             next ==
                 IF g.name = "PTCH"
                 THEN RecordHistory(h, "pitch", Some(g.value), ts)
                 ELSE IF g.name = "ROLL"
                 THEN RecordHistory(h, "roll", Some(g.value), ts)
                 ELSE h
         IN  XdrHistory(next, Tail(groups), ts)

\* the _record_history calls of _parse_nmea_for_dashboard for the sentence
ParseHistory(h, line, ts) ==
    IF WindValid(line)
    THEN IF Field(line, 2) = "R"
         THEN RecordHistory(
                  RecordHistory(h, "wind_apparent_speed",
                                NumberOrNone(Field(line, 3)), ts),
                  "wind_apparent_angle", NumberOrNone(Field(line, 1)), ts)
         ELSE IF Field(line, 2) = "T"
         THEN RecordHistory(h, "wind_true_speed",
                            NumberOrNone(Field(line, 3)), ts)
         ELSE h
    ELSE IF line.type = "WIMWD" /\ Len(line.fields) >= 8
    THEN RecordHistory(
             RecordHistory(h, "wind_true_direction",
                           NumberOrNone(Field(line, 1)), ts),
             "wind_true_speed", NumberOrNone(Field(line, 5)), ts)
    ELSE IF line.type = "WIMDA" /\ Len(line.fields) >= 12
    THEN RecordHistory(
             RecordHistory(
                 RecordHistory(h, "temperature",
                               NumberOrNone(Field(line, 5)), ts),
                 "humidity", NumberOrNone(Field(line, 9)), ts),
             "pressure", NumberOrNone(Field(line, 3)), ts)
    ELSE IF line.type = "HCHDT" /\ HeadingValid(line)
    THEN RecordHistory(h, "heading", Some(Number(Field(line, 1))), ts)
    ELSE IF line.type = "YXXDR"
    THEN XdrHistory(h, XdrGroups(line, 1), ts)
    ELSE IF RotValid(line)
    THEN RecordHistory(h, "rate_of_turn", Some(Number(Field(line, 1))), ts)
    ELSE IF line.type = "GPGGA" /\ Len(line.fields) >= 10
    THEN RecordHistory(h, "satellites", NumberOrNone(Field(line, 7)), ts)
    ELSE IF line.type = "GPVTG" /\ Len(line.fields) >= 6
    THEN RecordHistory(
             RecordHistory(h, "gps_speed", NumberOrNone(Field(line, 5)), ts),
             "gps_course", NumberOrNone(Field(line, 1)), ts)
    ELSE h

\* "while not self.should_stop", then the open test of the connection
rd_loop ==
    /\ rpc = "loop"
    /\ IF should_stop
       THEN rpc' = "dead"
       ELSE /\ serial_connection = "open"
            /\ messages_received < MaxMsgs
            /\ streamed_messages < MaxStream
            /\ rpc' = "want"
    /\ touch' = "none"
    /\ UNCHANGED <<handlerVars, streamVars, storeVars, sensorVars, r_line,
                   ctlVars, devVars, rx, logVars>>
    /\ UNCHANGED obsVars

\* "with self._serial_lock": the readline starts
rd_acquire ==
    /\ rpc = "want"
    /\ serial_lock = "free"
    /\ serial_lock' = "reader"
    /\ rpc' = "in_read"
    /\ touch' = "none"
    /\ UNCHANGED <<serial_connection, ser_baud, connection_status,
                   detected_baud, connected_since, messages_received,
                   should_stop, streamVars, storeVars, sensorVars, r_line,
                   ctlVars, devVars, rx, logVars>>
    /\ UNCHANGED obsVars

\* the readline returns a line, returns empty at its timeout, or raises
\* because the handle was closed or unset under it; the lock is left
rd_return ==
    /\ rpc = "in_read"
    /\ serial_lock' = "free"
    /\ \/ /\ serial_connection # "open"
          /\ rpc' = "loop"
          /\ UNCHANGED <<rx, r_line>>
       \/ /\ serial_connection = "open"
          /\ rx # <<>>
          /\ rx' = Tail(rx)
          /\ IF StartsWithDollar(Head(rx))
             THEN /\ r_line' = Head(rx)
                  /\ rpc' = "count"
             ELSE /\ rpc' = "loop"
                  /\ UNCHANGED r_line
       \/ /\ serial_connection = "open"
          /\ MayTimeOut
          /\ rpc' = "loop"
          /\ UNCHANGED <<rx, r_line>>
    /\ touch' = "reader"
    /\ UNCHANGED <<serial_connection, ser_baud, connection_status,
                   detected_baud, connected_since, messages_received,
                   should_stop, streamVars, storeVars, sensorVars, ctlVars,
                   devVars, logVars>>
    /\ UNCHANGED obsVars

\* messages_received += 1 for the sentence
rd_count ==
    /\ rpc = "count"
    /\ messages_received' = messages_received + 1
    /\ rpc' = "select"
    /\ touch' = "none"
    /\ UNCHANGED <<serial_connection, ser_baud, connection_status,
                   detected_baud, connected_since, should_stop, serial_lock,
                   streamVars, storeVars, sensorVars, r_line, ctlVars,
                   devVars, rx, logVars>>
    /\ UNCHANGED obsVars

\* a new wire type is selected for streaming and persisted
rd_select ==
    /\ rpc = "select"
    /\ IF r_line.type \notin selected_message_types
       THEN /\ selected_message_types' =
                  selected_message_types \cup {r_line.type}
            /\ state' = Saved(state, selected_message_types', is_streaming)
            /\ state_file' = Some(state')
       ELSE UNCHANGED <<selected_message_types, storeVars>>
    /\ rpc' = "parse"
    /\ touch' = "none"
    /\ UNCHANGED <<handlerVars, is_streaming, udp_socket, streamed_messages,
                   sensorVars, r_line, ctlVars, devVars, rx, logVars>>
    /\ UNCHANGED obsVars

\* the sentence is applied to the snapshot and the history
rd_parse ==
    /\ rpc = "parse"
    /\ sensor_data' = ParseDashboard(sensor_data, r_line, now)
    /\ sensor_history' = ParseHistory(sensor_history, r_line, now)
    /\ rpc' = "stream"
    /\ touch' = "none"
    /\ UNCHANGED <<handlerVars, streamVars, storeVars, r_line, ctlVars,
                   devVars, rx, logVars>>
    /\ UNCHANGED obsVars

\* stream_message when streaming and the type is selected
rd_stream ==
    /\ rpc = "stream"
    /\ IF is_streaming /\ r_line.type \in selected_message_types
       THEN /\ udp_socket' = TRUE
            /\ streamed_messages' = streamed_messages + 1
       ELSE UNCHANGED <<udp_socket, streamed_messages>>
    /\ rpc' = "loop"
    /\ r_line' = NoLine
    /\ touch' = "none"
    /\ UNCHANGED <<handlerVars, is_streaming, selected_message_types,
                   storeVars, sensorVars, ctlVars, devVars, rx, logVars>>
    /\ UNCHANGED obsVars

----------------------------------------------------------------------------
(* disconnect_serial *)

\* stop_streaming: close the socket, clear the flag, save_state
StopStreaming ==
    /\ udp_socket' = FALSE
    /\ is_streaming' = FALSE
    /\ state' = Saved(state, selected_message_types, FALSE)
    /\ state_file' = Some(state')

\* entry: "Stop streaming first"
disconnect_serial ==
    /\ cpc = "idle"
    /\ ops < MaxOps
    /\ ops' = ops + 1
    /\ op' = "disconnect"
    /\ arg' = NoArg
    /\ result' = "none"
    /\ attempt_log' = <<>>
    /\ status_log' = <<>>
    /\ cmd_log' = <<>>
    /\ open_mark' = 0
    /\ IF is_streaming
       THEN StopStreaming
       ELSE UNCHANGED <<udp_socket, is_streaming, storeVars>>
    /\ cpc' = "ds_stop"
    /\ touch' = "none"
    /\ UNCHANGED <<handlerVars, streamed_messages, selected_message_types,
                   sensorVars, readerVars, attempt, current_baud, conn_open,
                   valid_count, budget, idx, changes, config, devVars, rx>>
    /\ UNCHANGED obsVars

ds_stop == stop_reader_thread("ds_stop", "ds_join", "ds_close")
ds_join == join_reader("ds_join", "ds_close")

\* close an open connection; unset it
ds_close ==
    /\ cpc = "ds_close"
    /\ touch' = IF serial_connection = "open" THEN Touched ELSE "none"
    /\ serial_connection' = "None"
    /\ ser_baud' = NoBaud
    /\ rx' = <<>>
    /\ cpc' = "ds_reset"
    /\ UNCHANGED <<connection_status, detected_baud, connected_since,
                   messages_received, should_stop, serial_lock, streamVars,
                   storeVars, sensorVars, readerVars, op, arg, ops, attempt,
                   current_baud, conn_open, valid_count, budget, idx, changes,
                   config, result, devVars, logVars>>
    /\ UNCHANGED obsVars

\* "Reset state"
ds_reset ==
    /\ cpc = "ds_reset"
    /\ state' = [state EXCEPT !.port = "None"]
    /\ connected_since' = None
    /\ messages_received' = 0
    /\ detected_baud' = NoBaud
    /\ SetStatus(CONN_STATUS_DISCONNECTED)
    /\ cpc' = "ds_save"
    /\ touch' = "none"
    /\ UNCHANGED <<serial_connection, ser_baud, should_stop, serial_lock,
                   streamVars, state_file, sensorVars, readerVars, op, arg, ops,
                   attempt, current_baud, conn_open, valid_count, budget, idx,
                   changes, config, result, devVars, rx, attempt_log, cmd_log,
                   open_mark>>
    /\ message_history' = <<>>
    /\ UNCHANGED <<now, serial_health, udp_sent, benchVars>>

\* save_state, then "return True, ..."
ds_save ==
    /\ cpc = "ds_save"
    /\ state' = Saved(state, selected_message_types, is_streaming)
    /\ state_file' = Some(state')
    /\ Return("ok")
    /\ touch' = "none"
    /\ UNCHANGED <<handlerVars, streamVars, sensorVars, readerVars, op, arg, ops,
                   conn_open, devVars, rx, logVars>>
    /\ UNCHANGED obsVars

----------------------------------------------------------------------------
(* query_sentence_config *)

\* the sentence id the station reports in a $PAMTR,EN line
ReportedId == "MWD"

\* entry: the open test
query_sentence_config ==
    /\ cpc = "idle"
    /\ ops < MaxOps
    /\ ops' = ops + 1
    /\ op' = "query"
    /\ arg' = NoArg
    /\ attempt_log' = <<>>
    /\ status_log' = <<>>
    /\ cmd_log' = <<>>
    /\ open_mark' = 0
    /\ IF serial_connection = "open"
       THEN /\ cpc' = "q_lock"
            /\ result' = "none"
            /\ UNCHANGED locals
       ELSE Return("fail")
    /\ touch' = "none"
    /\ UNCHANGED <<handlerVars, streamVars, storeVars, sensorVars, readerVars,
                   conn_open, devVars, rx>>
    /\ UNCHANGED obsVars

\* "with self._serial_lock"
q_lock ==
    /\ cpc = "q_lock"
    /\ serial_lock = "free"
    /\ serial_lock' = "ctl"
    /\ cpc' = "q_write"
    /\ touch' = "none"
    /\ UNCHANGED <<serial_connection, ser_baud, connection_status,
                   detected_baud, connected_since, messages_received,
                   should_stop, streamVars, storeVars, sensorVars, readerVars,
                   op, arg, ops, attempt, current_baud, conn_open,
                   valid_count, budget, idx, changes, config, result, devVars,
                   rx, logVars>>
    /\ UNCHANGED obsVars

\* reset_input_buffer, then the write of $PAMTC,EN,Q; the deadline is armed
q_write ==
    /\ cpc = "q_write"
    /\ rx' = <<>>
    /\ Write("$PAMTC,EN,Q", ser_baud)
    /\ config' = {}
    /\ budget' = QueryBudget
    /\ cpc' = "q_read"
    /\ UNCHANGED <<handlerVars, streamVars, storeVars, sensorVars, readerVars,
                   op, arg, ops, attempt, current_baud, conn_open,
                   valid_count, idx, changes, result, attempt_log, status_log,
                   open_mark>>
    /\ UNCHANGED obsVars

\* one pass of the collection loop: a readline, the collection of a
\* $PAMTR,EN line, the test for a complete answer
q_read ==
    /\ cpc = "q_read"
    /\ \E got \in {TRUE, FALSE} :
          /\ IF got THEN rx # <<>> /\ rx' = Tail(rx)
                    ELSE MayTimeOut /\ UNCHANGED rx
          /\ config' = IF got /\ Head(rx).type = "PAMTR"
                       THEN config \cup ({ReportedId} \cap SUPPORTED_SENTENCES)
                       ELSE config
    /\ budget' = budget - 1
    /\ cpc' = IF \/ budget' = 0
                 \/ Cardinality(config') >= Cardinality(SUPPORTED_SENTENCES)
              THEN "q_done" ELSE "q_read"
    /\ touch' = Touched
    /\ UNCHANGED <<handlerVars, streamVars, storeVars, sensorVars, readerVars,
                   op, arg, ops, attempt, current_baud, conn_open,
                   valid_count, idx, changes, result, devVars, logVars>>
    /\ UNCHANGED obsVars

\* the sleep that ends the last pass, the deadline test, the lock is left,
\* "return True, config" or "return False, ..."
q_done ==
    /\ cpc = "q_done"
    /\ serial_lock' = "free"
    /\ Return(IF config # {} THEN "ok" ELSE "fail")
    /\ touch' = "none"
    /\ UNCHANGED <<serial_connection, ser_baud, connection_status,
                   detected_baud, connected_since, messages_received,
                   should_stop, streamVars, storeVars, sensorVars, readerVars,
                   op, arg, ops, conn_open, devVars, rx, logVars>>
    /\ UNCHANGED obsVars

----------------------------------------------------------------------------
(* change_baud_rate *)

\* entry: the open test and the "already at" test
change_baud_rate(new) ==
    /\ cpc = "idle"
    /\ ops < MaxOps
    /\ ops' = ops + 1
    /\ op' = "change_baud"
    /\ arg' = [NoArg EXCEPT !.new = new]
    /\ attempt_log' = <<>>
    /\ status_log' = <<>>
    /\ cmd_log' = <<>>
    /\ open_mark' = 0
    /\ IF serial_connection = "open" /\ ser_baud # new
       THEN /\ cpc' = "cb_stop"
            /\ result' = "none"
            /\ UNCHANGED locals
       ELSE Return("fail")
    /\ touch' = "none"
    /\ UNCHANGED <<handlerVars, streamVars, storeVars, sensorVars, readerVars,
                   conn_open, devVars, rx>>
    /\ UNCHANGED obsVars

\* step 1: $PAMTX
cb_stop ==
    /\ cpc = "cb_stop"
    /\ Write("$PAMTX", ser_baud)
    /\ cpc' = "cb_cmd"
    /\ UNCHANGED <<handlerVars, streamVars, storeVars, sensorVars, readerVars,
                   op, arg, ops, attempt, current_baud, conn_open, valid_count,
                   budget, idx, changes, config, result, rx, attempt_log,
                   status_log, open_mark>>
    /\ UNCHANGED obsVars

\* step 2: the baud command
cb_cmd ==
    /\ cpc = "cb_cmd"
    /\ Write(BaudCmd(arg.new), ser_baud)
    /\ cpc' = "cb_close"
    /\ UNCHANGED <<handlerVars, streamVars, storeVars, sensorVars, readerVars,
                   op, arg, ops, attempt, current_baud, conn_open, valid_count,
                   budget, idx, changes, config, result, rx, attempt_log,
                   status_log, open_mark>>
    /\ UNCHANGED obsVars

\* step 3: close
cb_close ==
    /\ cpc = "cb_close"
    /\ serial_connection' = "closed"
    /\ rx' = <<>>
    /\ cpc' = "cb_reopen"
    /\ touch' = Touched
    /\ UNCHANGED <<ser_baud, connection_status, detected_baud, connected_since,
                   messages_received, should_stop, serial_lock, streamVars,
                   storeVars, sensorVars, readerVars, op, arg, ops, attempt,
                   current_baud, conn_open, valid_count, budget, idx, changes,
                   config, result, devVars, logVars>>
    /\ UNCHANGED obsVars

\* step 4: reopen at the new rate
cb_reopen ==
    /\ cpc = "cb_reopen"
    /\ serial_connection' = "open"
    /\ ser_baud' = arg.new
    /\ rx' = <<>>
    /\ cpc' = "cb_start"
    /\ touch' = Touched
    /\ UNCHANGED <<connection_status, detected_baud, connected_since,
                   messages_received, should_stop, serial_lock, streamVars,
                   storeVars, sensorVars, readerVars, op, arg, ops, attempt,
                   current_baud, conn_open, valid_count, budget, idx, changes,
                   config, result, devVars, logVars>>
    /\ UNCHANGED obsVars

\* a last step that saves the state without the new rate
cb_start_M ==
    /\ cpc = "cb_start"
    /\ Write("$PAMTX,1", ser_baud)
    /\ state' = Saved(state, selected_message_types, is_streaming)
    /\ state_file' = Some(state')
    /\ Return("ok")
    /\ UNCHANGED <<handlerVars, streamVars, sensorVars, readerVars, op, arg, ops,
                   conn_open, rx, attempt_log, status_log, open_mark>>
    /\ UNCHANGED obsVars

\* step 5: $PAMTX,1, then the state update and save_state
cb_start ==
    /\ cpc = "cb_start"
    /\ Write("$PAMTX,1", ser_baud)
    /\ state' = Saved([state EXCEPT !.baud_rate = arg.new],
                      selected_message_types, is_streaming)
    /\ state_file' = Some(state')
    /\ Return("ok")
    /\ UNCHANGED <<handlerVars, streamVars, sensorVars, readerVars, op, arg, ops,
                   conn_open, rx, attempt_log, status_log, open_mark>>
    /\ UNCHANGED obsVars

----------------------------------------------------------------------------
(* configure_sentence, configure_sentences_batch as an operation,
   save_sentence_config, load_sentence_defaults *)

\* sentence changes an operator submits: a known id with the default
\* interval, an unknown id
ConfigInputs ==
    {[id |-> "MWD", enabled |-> TRUE, interval |-> 0],
     [id |-> "XYZ", enabled |-> TRUE, interval |-> 5]}

\* entry: the open test and the registry test
configure_sentence(c) ==
    /\ cpc = "idle"
    /\ ops < MaxOps
    /\ ops' = ops + 1
    /\ op' = "configure"
    /\ arg' = [NoArg EXCEPT !.id = c.id, !.enabled = c.enabled,
                            !.interval = IntervalOrDefault(c.interval)]
    /\ attempt_log' = <<>>
    /\ status_log' = <<>>
    /\ cmd_log' = <<>>
    /\ open_mark' = 0
    /\ IF serial_connection = "open" /\ Known(c)
       THEN /\ cpc' = "cf_lock"
            /\ result' = "none"
            /\ UNCHANGED locals
       ELSE Return("fail")
    /\ touch' = "none"
    /\ UNCHANGED <<handlerVars, streamVars, storeVars, sensorVars, readerVars,
                   conn_open, devVars, rx>>
    /\ UNCHANGED obsVars

\* "with self._serial_lock"
cf_lock ==
    /\ cpc = "cf_lock"
    /\ serial_lock = "free"
    /\ serial_lock' = "ctl"
    /\ cpc' = "cf_write"
    /\ touch' = "none"
    /\ UNCHANGED <<serial_connection, ser_baud, connection_status,
                   detected_baud, connected_since, messages_received,
                   should_stop, streamVars, storeVars, sensorVars, readerVars,
                   op, arg, ops, attempt, current_baud, conn_open,
                   valid_count, budget, idx, changes, config, result, devVars,
                   rx, logVars>>
    /\ UNCHANGED obsVars

\* the write of the command
cf_write ==
    /\ cpc = "cf_write"
    /\ Write(EnableCmd(arg.id, Flag(arg.enabled), arg.interval), ser_baud)
    /\ cpc' = "cf_done"
    /\ UNCHANGED <<handlerVars, streamVars, storeVars, sensorVars, readerVars,
                   op, arg, ops, attempt, current_baud, conn_open,
                   valid_count, budget, idx, changes, config, result, rx,
                   attempt_log, status_log, open_mark>>
    /\ UNCHANGED obsVars

\* the lock is left; sentence_config is updated and saved
cf_done ==
    /\ cpc = "cf_done"
    /\ serial_lock' = "free"
    /\ state' = Saved([state EXCEPT !.sentence_config =
                          SetConfig(@, arg.id, arg.enabled, arg.interval)],
                      selected_message_types, is_streaming)
    /\ state_file' = Some(state')
    /\ Return("ok")
    /\ touch' = "none"
    /\ UNCHANGED <<serial_connection, ser_baud, connection_status,
                   detected_baud, connected_since, messages_received,
                   should_stop, streamVars, sensorVars, readerVars, op, arg, ops,
                   conn_open, devVars, rx, logVars>>
    /\ UNCHANGED obsVars

\* entry of the batch as an operation of its own
configure_sentences_batch(c) ==
    /\ cpc = "idle"
    /\ ops < MaxOps
    /\ ops' = ops + 1
    /\ op' = "batch"
    /\ arg' = NoArg
    /\ changes' = <<c>>
    /\ result' = "none"
    /\ attempt_log' = <<>>
    /\ status_log' = <<>>
    /\ cmd_log' = <<>>
    /\ open_mark' = 0
    /\ cpc' = "bt_begin"
    /\ touch' = "none"
    /\ UNCHANGED <<handlerVars, streamVars, storeVars, sensorVars, readerVars,
                   attempt, current_baud, conn_open, valid_count, budget, idx,
                   config, devVars, rx>>
    /\ UNCHANGED obsVars

\* save_sentence_config and load_sentence_defaults: the open test and one
\* write, outside the lock
DeviceCommand(name, cmd) ==
    /\ cpc = "idle"
    /\ ops < MaxOps
    /\ ops' = ops + 1
    /\ op' = name
    /\ arg' = NoArg
    /\ attempt_log' = <<>>
    /\ status_log' = <<>>
    /\ open_mark' = 0
    /\ IF serial_connection = "open"
       THEN /\ cmd_log' = <<cmd>>
            /\ DevRecv(cmd, ser_baud)
            /\ touch' = Touched
            /\ Return("ok")
       ELSE /\ cmd_log' = <<>>
            /\ touch' = "none"
            /\ Return("fail")
            /\ UNCHANGED devVars
    /\ UNCHANGED <<handlerVars, streamVars, storeVars, sensorVars, readerVars,
                   conn_open, rx>>
    /\ UNCHANGED obsVars

save_sentence_config == DeviceCommand("save_config", "$PAMTC,EN,S")
load_sentence_defaults == DeviceCommand("load_defaults", "$PAMTC,EN,LD")

----------------------------------------------------------------------------
(* start_streaming and stop_streaming as operations *)

start_streaming ==
    /\ cpc = "idle"
    /\ ops < MaxOps
    /\ ops' = ops + 1
    /\ op' = "start_streaming"
    /\ arg' = NoArg
    /\ attempt_log' = <<>>
    /\ status_log' = <<>>
    /\ cmd_log' = <<>>
    /\ open_mark' = 0
    /\ StartStreaming
    /\ Return("ok")
    /\ touch' = "none"
    /\ UNCHANGED <<handlerVars, selected_message_types, sensorVars,
                   readerVars, conn_open, devVars, rx>>
    /\ UNCHANGED obsVars

stop_streaming ==
    /\ cpc = "idle"
    /\ ops < MaxOps
    /\ ops' = ops + 1
    /\ op' = "stop_streaming"
    /\ arg' = NoArg
    /\ attempt_log' = <<>>
    /\ status_log' = <<>>
    /\ cmd_log' = <<>>
    /\ open_mark' = 0
    /\ StopStreaming
    /\ Return("ok")
    /\ touch' = "none"
    /\ UNCHANGED <<handlerVars, streamed_messages, selected_message_types,
                   sensorVars, readerVars, conn_open, devVars, rx>>
    /\ UNCHANGED obsVars

----------------------------------------------------------------------------
(* The system *)

Control ==
    \/ \E port \in Ports, pref \in PrefRates : connect_serial(port, pref)
    \/ cs_stop
    \/ cs_join
    \/ cs_close
    \/ cs_exists
    \/ cs_attempt
    \/ tb_open
    \/ tb_read
    \/ sw_begin
    \/ sw_baud
    \/ sw_watch
    \/ sw_close
    \/ sw_reopen
    \/ sw_confirm
    \/ sw_failed
    \/ en_begin
    \/ en_write
    \/ rp_begin
    \/ bt_begin
    \/ bt_write
    \/ bt_done
    \/ cs_reader
    \/ cs_state
    \/ cs_defaults
    \/ cs_stream
    \/ disconnect_serial
    \/ ds_stop
    \/ ds_join
    \/ ds_close
    \/ ds_reset
    \/ ds_save
    \/ query_sentence_config
    \/ q_lock
    \/ q_write
    \/ q_read
    \/ q_done
    \/ \E new \in Bauds : change_baud_rate(new)
    \/ cb_stop
    \/ cb_cmd
    \/ cb_close
    \/ cb_reopen
    \/ cb_start
    \/ \E c \in ConfigInputs : configure_sentence(c)
    \/ cf_lock
    \/ cf_write
    \/ cf_done
    \/ \E c \in ConfigInputs : configure_sentences_batch(c)
    \/ save_sentence_config
    \/ load_sentence_defaults
    \/ start_streaming
    \/ stop_streaming

Reader ==
    \/ rd_loop
    \/ rd_acquire
    \/ rd_return
    \/ rd_count
    \/ rd_select
    \/ rd_parse
    \/ rd_stream

Device ==
    \/ DevSwitch
    \/ DevEmit

Next ==
    \/ Control
    \/ Reader
    \/ Device

Spec == Init /\ [][Next]_vars

\* a started operation is run to its end by its thread; the reader thread is
\* scheduled; the station does what it is about to do
Running == cpc # "idle" /\ Control

FairSpec ==
    /\ Init
    /\ [][Next]_vars
    /\ WF_vars(Running)
    /\ WF_vars(Reader)
    /\ WF_vars(Device)

----------------------------------------------------------------------------
(* A session in full: the reader pass with the serial-health counters, the   *)
(* message history and the datagrams, next to the operations that start and  *)
(* end a session and that steer the streaming.  The specification above      *)
(* follows the reader only as far as the handle, the lock, the selection and *)
(* the two totals; here every statement of a pass is followed.               *)

\* the selection the operator made, held in the state file of an earlier run
OperatorTypes == {"HCHDG"}

\* what the station sends in a session: a heading and a wind sentence, a wind
\* sentence damaged on the wire, and a transducer sentence without pitch or
\* roll that is cut before its checksum
SessionSentences ==
    {Good("HCHDG", <<"2", "", "", "", "">>),
     Good("WIMWV", <<"1", "R", "1", "N", "A">>),
     Corrupt("WIMWV", <<"1", "R", "1", "N", "A">>),
     Bare("YXXDR", <<"C", "1", "C", "TEMP">>)}

\* load_state finds the operator's selection; the station emits at 38400
SessionInit ==
    /\ Constructed
    /\ Whole
    /\ rx = <<>>
    /\ selected_message_types = OperatorTypes
    /\ state = [InitState EXCEPT !.selected_message_types = OperatorTypes]
    /\ state_file = Some(state)
    /\ dev_mode = "emitting"
    /\ dev_obeys
    /\ dev_baud = B38400

\* one line of the session reaches the input buffer of the open port
DevSentence ==
    /\ OpenBaud # NoBaud
    /\ dev_on
    /\ Len(rx) < MaxRx
    /\ \E s \in SessionSentences :
          rx' = Append(rx, IF dev_baud = OpenBaud THEN s
                           ELSE Line(Garbage, FALSE))
    /\ touch' = "none"
    /\ UNCHANGED <<handlerVars, streamVars, storeVars, sensorVars, readerVars,
                   ctlVars, devVars, logVars, obsVars>>

\* update_selected_message_types: the operator's selection, persisted
update_selected_message_types(types) ==
    /\ cpc = "idle"
    /\ ops < MaxOps
    /\ ops' = ops + 1
    /\ op' = "update_selected"
    /\ arg' = NoArg
    /\ attempt_log' = <<>>
    /\ status_log' = <<>>
    /\ cmd_log' = <<>>
    /\ open_mark' = 0
    /\ selected_message_types' = types
    /\ state' = Saved(state, types, is_streaming)
    /\ state_file' = Some(state')
    /\ Return("ok")
    /\ touch' = "none"
    /\ UNCHANGED <<handlerVars, is_streaming, udp_socket, streamed_messages,
                   sensorVars, readerVars, conn_open, devVars, rx, obsVars>>

\* a counter one bit wide
Bump_M(h, c) == [h EXCEPT ![c] = (@ + 1) % 2]

\* self.serial_health[c] += 1
Bump(h, c) == [h EXCEPT ![c] = @ + 1]

\* the sum of the serial-health counters
HealthTotal ==
    serial_health["read_timeouts"] + serial_health["empty_reads"]
    + serial_health["nodata_exceptions"]
    + serial_health["other_read_exceptions"]
    + serial_health["checksum_mismatch"] + serial_health["checksum_missing"]
    + serial_health["unmapped_messages"]

\* "while not self.should_stop", then the open test of the connection
read_loop ==
    /\ rpc = "loop"
    /\ IF should_stop
       THEN rpc' = "dead"
       ELSE /\ serial_connection = "open"
            /\ Len(message_history) < MaxLines
            /\ HealthTotal < MaxHealth
            /\ rpc' = "want"
    /\ touch' = "none"
    /\ UNCHANGED <<handlerVars, streamVars, storeVars, sensorVars, r_line,
                   ctlVars, devVars, rx, logVars, obsVars>>

\* "if not got_data and not self.should_stop": empty_reads
EmptyRead(h) == IF should_stop THEN h ELSE Bump(h, "empty_reads")

\* the readline returns a line; or it returns empty at its timeout, which is
\* counted in read_timeouts; or it raises because the handle was closed
\* or unset under it, which is counted as a no-data or as another exception;
\* the lock is left
read_return ==
    /\ rpc = "in_read"
    /\ serial_lock' = "free"
    /\ \/ /\ serial_connection # "open"
          /\ \E c \in {"nodata_exceptions", "other_read_exceptions"} :
                serial_health' = EmptyRead(Bump(serial_health, c))
          /\ rpc' = "loop"
          /\ UNCHANGED <<rx, r_line>>
       \/ /\ serial_connection = "open"
          /\ rx # <<>>
          /\ rx' = Tail(rx)
          /\ IF StartsWithDollar(Head(rx))
             THEN /\ r_line' = Head(rx)
                  /\ rpc' = "count"
                  /\ UNCHANGED serial_health
             ELSE /\ rpc' = "loop"
                  /\ serial_health' = EmptyRead(serial_health)
                  /\ UNCHANGED r_line
       \/ /\ serial_connection = "open"
          /\ MayTimeOut
          /\ serial_health' =
                EmptyRead(Bump(serial_health, "read_timeouts"))
          /\ rpc' = "loop"
          /\ UNCHANGED <<rx, r_line>>
    /\ touch' = "reader"
    /\ UNCHANGED <<serial_connection, ser_baud, connection_status,
                   detected_baud, connected_since, messages_received,
                   should_stop, streamVars, storeVars, sensorVars, ctlVars,
                   devVars, logVars, now, message_history, udp_sent,
                   benchVars>>

\* the last three letters of a wire type
Code(t) ==
    CASE t = "HCHDG" -> "HDG" [] t = "CHDG" -> "HDG" [] t = "HCHDT" -> "HDT"
      [] t = "TIROT" -> "ROT" [] t = "GPGGA" -> "GGA" [] t = "GPVTG" -> "VTG"
      [] t = "WIMWD" -> "MWD" [] t = "WIMDA" -> "MDA" [] t = "GPZDA" -> "ZDA"
      [] t = "PAMTR" -> "MTR" [] OTHER -> "XDR"

\* the names of the groups of a YXXDR sentence, from group i on
RECURSIVE XdrNames(_, _)
XdrNames(line, i) ==
    IF i + 3 < Len(line.fields)
    THEN (IF Field(line, i + 3) # "" THEN {Field(line, i + 3)} ELSE {})
         \cup XdrNames(line, i + 4)
    ELSE {}

\* _map_msg_to_sentence_id: the sentence id of a line, None without one
map_msg_to_sentence_id(line) ==
    IF line.type = "" THEN None
    ELSE IF line.type = "WIMWV"
    THEN (IF Len(line.fields) > 2 /\ Field(line, 2) = "T"
          THEN Some("MWVT") ELSE Some("MWVR"))
    ELSE IF line.type = "YXXDR"
    THEN (IF XdrNames(line, 1) \cap {"PTCH", "ROLL"} # {}
          THEN Some("XDRB") ELSE None)
    ELSE IF Code(line.type) \in SUPPORTED_SENTENCES
    THEN Some(Code(line.type))
    ELSE None

\* messages_received += 1; the checksum counters: a match counts nothing, a
\* mismatch and a missing checksum are counted, and the sentence goes on in
\* all three cases; the unmapped counter
read_count ==
    /\ rpc = "count"
    /\ messages_received' = messages_received + 1
    /\ serial_health' =
          LET ok == nmea_checksum_ok(r_line)
              h == IF ok = Some(TRUE) THEN serial_health
                   ELSE IF ok = Some(FALSE)
                   THEN Bump(serial_health, "checksum_mismatch")
                   ELSE Bump(serial_health, "checksum_missing")
          IN  IF map_msg_to_sentence_id(r_line) # None THEN h
              ELSE Bump(h, "unmapped_messages")
    /\ rpc' = "select"
    /\ touch' = "none"
    /\ UNCHANGED <<serial_connection, ser_baud, connection_status,
                   detected_baud, connected_since, should_stop, serial_lock,
                   streamVars, storeVars, sensorVars, r_line, ctlVars,
                   devVars, rx, logVars, now, message_history, udp_sent,
                   benchVars>>

\* a pass that hands the sentence on without applying it
read_parse_M ==
    /\ rpc = "parse"
    /\ rpc' = "stream"
    /\ touch' = "none"
    /\ UNCHANGED <<handlerVars, streamVars, storeVars, sensorVars, r_line,
                   ctlVars, devVars, rx, logVars, obsVars>>

\* the sentence is applied to the snapshot and the history series and put
\* in the message history: insert(0, message), pop beyond max_history
read_parse ==
    /\ rpc = "parse"
    /\ sensor_data' = ParseDashboard(sensor_data, r_line, now)
    /\ sensor_history' = ParseHistory(sensor_history, r_line, now)
    /\ message_history' =
          LET longer == <<r_line>> \o message_history
          IN  IF Len(longer) > max_history
              THEN SubSeq(longer, 1, Len(longer) - 1) ELSE longer
    /\ rpc' = "stream"
    /\ touch' = "none"
    /\ UNCHANGED <<handlerVars, streamVars, storeVars, r_line, ctlVars,
                   devVars, rx, logVars, now, serial_health, udp_sent,
                   benchVars>>

\* the datagram stream_message sends: the raw line and a newline
Datagram(line) == <<line, "\n">>

\* "if self.is_streaming and msg_type in self.selected_message_types", in
\* the loop and again at the head of stream_message
read_stream ==
    /\ rpc = "stream"
    /\ IF is_streaming /\ r_line.type \in selected_message_types
       THEN /\ rpc' = "send"
            /\ UNCHANGED r_line
       ELSE /\ rpc' = "loop"
            /\ r_line' = NoLine
    /\ touch' = "none"
    /\ UNCHANGED <<handlerVars, streamVars, storeVars, sensorVars, ctlVars,
                   devVars, rx, logVars, obsVars>>

\* an except clause that counts the datagram as sent
SendFailed_M ==
    /\ udp_socket' = TRUE
    /\ streamed_messages' = streamed_messages + 1
    /\ rpc' = "loop"
    /\ r_line' = NoLine
    /\ UNCHANGED udp_sent

\* the except clause of stream_message: the socket held is closed and a
\* new one is made; the pass is over
SendFailed ==
    /\ udp_socket' = TRUE
    /\ rpc' = "loop"
    /\ r_line' = NoLine
    /\ UNCHANGED <<udp_sent, streamed_messages>>

\* the body of stream_message: a socket is made if none is held and sendto
\* sends the datagram; or a statement raises (sendto on a socket that fails,
\* or on one that was closed or unset after the test)
read_send ==
    /\ rpc = "send"
    /\ \/ /\ udp_socket' = TRUE
          /\ udp_sent' = Append(udp_sent, Datagram(r_line))
          /\ rpc' = "sent"
          /\ UNCHANGED <<r_line, streamed_messages>>
       \/ SendFailed
    /\ touch' = "none"
    /\ UNCHANGED <<handlerVars, is_streaming, selected_message_types,
                   storeVars, sensorVars, ctlVars, devVars, rx, logVars, now,
                   serial_health, message_history, benchVars>>

\* "self.streamed_messages += 1" after the sendto has returned
read_streamed ==
    /\ rpc = "sent"
    /\ streamed_messages' = streamed_messages + 1
    /\ rpc' = "loop"
    /\ r_line' = NoLine
    /\ touch' = "none"
    /\ UNCHANGED <<handlerVars, is_streaming, udp_socket,
                   selected_message_types, storeVars, sensorVars, ctlVars,
                   devVars, rx, logVars, obsVars>>

SessionNext ==
    \/ connect_serial("P", B38400)
    \/ cs_stop
    \/ cs_join
    \/ cs_close
    \/ cs_exists
    \/ cs_attempt
    \/ tb_open
    \/ tb_read
    \/ en_begin
    \/ en_write
    \/ rp_begin
    \/ cs_reader
    \/ cs_state
    \/ cs_defaults
    \/ cs_stream
    \/ disconnect_serial
    \/ ds_stop
    \/ ds_join
    \/ ds_close
    \/ ds_reset
    \/ ds_save
    \/ start_streaming
    \/ stop_streaming
    \/ update_selected_message_types(OperatorTypes)
    \/ read_loop
    \/ rd_acquire
    \/ read_return
    \/ read_count
    \/ rd_select
    \/ read_parse
    \/ read_stream
    \/ read_send
    \/ read_streamed
    \/ DevSentence

SessionSpec == SessionInit /\ [][SessionNext]_vars

----------------------------------------------------------------------------
(* The aggregator on its own: _parse_nmea_for_dashboard and _record_history *)
(* applied to sequences of sentences while the wall clock advances          *)

\* the sentences given to the aggregator
AggSentences ==
    {Good("HCHDT", <<"1", "T">>),
     Good("HCHDG", <<"2", "", "", "", "">>),
     Good("YXXDR", <<"A", "1", "D", "PTCH">>),
     Good("YXXDR", <<"A", "", "D", "PTCH", "A", "2", "D", "ROLL">>),
     Good("TIROT", <<"1", "A">>),
     Good("TIROT", <<"2", "V">>),
     Good("GPGGA", <<"120000", "4830.0", "N", "01130.0", "W", "1", "7", "1",
                     "2", "M">>),
     Good("GPVTG", <<"1", "T", "", "M", "2", "N">>),
     Good("GPVTG", <<"", "T", "", "M", "", "N">>),
     Good("WIMWV", <<"1", "R", "1", "N", "A">>),
     Good("WIMWV", <<"2", "T", "", "N", "A">>),
     Good("WIMWD", <<"1", "T", "1", "M", "2", "N", "1", "M">>),
     Good("WIMDA", <<"1", "I", "1", "B", "2", "C", "", "C", "7", "", "9",
                     "C">>),
     Good("GPZDA", <<"120000", "7", "9", "2026", "", "">>)}

\* seconds the clock advances by between two looks at it
TickSteps == {450, 451}

FeedSeqs == UNION {[1..n -> AggSentences] : n \in 0..MaxFeed}

AggInit ==
    /\ Constructed
    /\ Whole
    /\ dev_mode = "silent"
    /\ dev_obeys
    /\ dev_baud = B4800
    /\ selected_message_types = {}
    /\ state = InitState
    /\ state_file = None
    /\ rx \in FeedSeqs

\* one call of _parse_nmea_for_dashboard, on the next sentence of the input
parse_nmea_for_dashboard ==
    /\ rx # <<>>
    /\ r_line' = Head(rx)
    /\ rx' = Tail(rx)
    /\ sensor_data' = ParseDashboard(sensor_data, Head(rx), now)
    /\ sensor_history' = ParseHistory(sensor_history, Head(rx), now)
    /\ UNCHANGED <<handlerVars, streamVars, storeVars, rpc, ctlVars, devVars,
                   logVars, touch, obsVars>>

\* time passes
Tick ==
    /\ \E dt \in TickSteps :
          /\ now + dt <= MaxNow
          /\ now' = now + dt
    /\ UNCHANGED <<handlerVars, streamVars, storeVars, sensorVars, readerVars,
                   ctlVars, devVars, rx, logVars, touch, serial_health,
                   message_history, udp_sent, benchVars>>

AggNext ==
    \/ parse_nmea_for_dashboard
    \/ Tick

AggSpec == AggInit /\ [][AggNext]_vars

----------------------------------------------------------------------------
(* Functions of the source called on their own.  A string is a sequence of  *)
(* characters here.                                                         *)

Upper ==
    {"A", "B", "C", "D", "E", "F", "G", "H", "I", "J", "K", "L", "M", "N", "O",
     "P", "Q", "R", "S", "T", "U", "V", "W", "X", "Y", "Z"}

\* what str.strip() removes
Blank == {" ", "\t", "\r", "\n"}

Chars(s) == {s[i] : i \in 1..Len(s)}

\* s.lstrip(cs), s.rstrip(cs), s.strip()
LStrip(s, cs) ==
    LET first == CHOOSE i \in 1..(Len(s) + 1) :
                     /\ i = Len(s) + 1 \/ s[i] \notin cs
                     /\ \A j \in 1..(i - 1) : s[j] \in cs
    IN  SubSeq(s, first, Len(s))
RStrip(s, cs) ==
    LET last == CHOOSE i \in 0..Len(s) :
                    /\ i = 0 \/ s[i] \notin cs
                    /\ \A j \in (i + 1)..Len(s) : s[j] \in cs
    IN  SubSeq(s, 1, last)
Strip(s) == RStrip(LStrip(s, Blank), Blank)

\* the k-th smallest member of a set of numbers
NthOf(S, k) == CHOOSE x \in S : Cardinality({y \in S : y < x}) = k - 1

\* s.split(c): the pieces between the occurrences of c, empty ones kept
SplitAt(s, c) ==
    LET cuts == {0} \cup {i \in 1..Len(s) : s[i] = c} \cup {Len(s) + 1}
    IN  [k \in 1..(Cardinality(cuts) - 1) |->
            SubSeq(s, NthOf(cuts, k) + 1, NthOf(cuts, k + 1) - 1)]

\* re.split(r'[\r\n]+', s): the pieces between the runs of CR and LF
SplitLines(s) ==
    LET NL == {"\r", "\n"}
        starts == {i \in 1..Len(s) : s[i] \notin NL /\ (i = 1 \/ s[i - 1] \in NL)}
        EndOf(i) == CHOOSE j \in i..Len(s) :
                        /\ j = Len(s) \/ s[j + 1] \in NL
                        /\ \A k \in i..j : s[k] \notin NL
        pieces == [k \in 1..Cardinality(starts) |->
                      SubSeq(s, NthOf(starts, k), EndOf(NthOf(starts, k)))]
        lead == IF s = <<>> \/ s[1] \in NL THEN << <<>> >> ELSE <<>>
        trail == IF s # <<>> /\ s[Len(s)] \in NL THEN << <<>> >> ELSE <<>>
    IN  lead \o pieces \o trail

\* "for part in line.split('$')": '$' + part for each stripped part that is
\* not empty and holds a comma
RECURSIVE SentencesOfParts(_)
SentencesOfParts(parts) ==
    IF parts = <<>> THEN <<>>
    ELSE LET part == Strip(Head(parts))
         IN  (IF part = <<>> \/ "," \notin Chars(part) THEN <<>>
              ELSE << <<"$">> \o part >>) \o SentencesOfParts(Tail(parts))

\* "for line in re.split(...)": the sentences of each stripped line that is
\* not empty
RECURSIVE SentencesOfLines(_)
SentencesOfLines(lines) ==
    IF lines = <<>> THEN <<>>
    ELSE LET line == Strip(Head(lines))
         IN  (IF line = <<>> THEN <<>>
              ELSE SentencesOfParts(SplitAt(line, "$")))
             \o SentencesOfLines(Tail(lines))

\* _split_nmea_sentences: the sentences a read buffer yields, in order
SplitNmeaSentences(data) ==
    IF data = <<>> \/ "$" \notin Chars(data) THEN <<>>
    ELSE SentencesOfLines(SplitLines(data))

\* the longest prefix of s made of characters of cs
LeadingRun(s, cs) == SubSeq(s, 1, Len(s) - Len(LStrip(s, cs)))

\* a reader that takes the whole first field for the type
MsgType_M(data) == Strip(LStrip(Head(SplitAt(data, ",")), {"$"}))

\* the type the reader gives a sentence: the first field without '$',
\* stripped, cut to its leading capital letters when it has any
MsgType(data) ==
    LET raw_type == Strip(LStrip(Head(SplitAt(data, ",")), {"$"}))
        m == LeadingRun(raw_type, Upper)
    IN  IF m # <<>> THEN m ELSE raw_type

\* sentences on the wire: with a checksum, with another, without one, and
\* one whose first field ran into the next
WireSentences ==
    {<<"$", "A", ",", "1", "*", "5", "0">>,
     <<"$", "B", ",", "2", "*", "X", "X">>,
     <<"$", "C", ",", "3">>,
     <<"$", "H", "C", "H", "D", "G", "3", "1", ".", "0", ",", "E", "*", "7",
       "C">>}

\* what stands between two sentences of a buffer
Separators ==
    {<<>>, <<"\r", "\n">>, <<"\n">>, <<"\r", "\n", "\r", "\n">>}

\* what stands before the first sentence: nothing, or text without a comma
Preambles == {<<>>, <<"g", "a", "r", "b">>}

\* read buffers of two sentences
SplitCalls ==
    {[fn |-> "split_nmea_sentences",
      data |-> pre \o s1 \o sep \o s2 \o tail,
      sentences |-> <<s1, s2>>] :
        pre \in Preambles, s1 \in WireSentences, sep \in Separators,
        s2 \in WireSentences, tail \in {<<>>, <<"\r", "\n">>}}

\* decimal digits as characters
Digits == <<"0", "1", "2", "3", "4", "5", "6", "7", "8", "9">>
DigitValue(c) == CHOOSE d \in 0..9 : Digits[d + 1] = c
IsDigit(c) == \E d \in 0..9 : Digits[d + 1] = c

\* n written with exactly w digits
RECURSIVE Written(_, _)
Written(n, w) ==
    IF w = 0 THEN <<>> ELSE Written(n \div 10, w - 1) \o <<Digits[(n % 10) + 1]>>

\* int(s) of a string of digits
RECURSIVE IntOf(_)
IntOf(s) ==
    IF s = <<>> THEN 0
    ELSE IntOf(SubSeq(s, 1, Len(s) - 1)) * 10 + DigitValue(s[Len(s)])

RECURSIVE Pow10(_)
Pow10(k) == IF k = 0 THEN 1 ELSE 10 * Pow10(k - 1)

\* coord_str.index('.')
DotPos(s) == CHOOSE i \in 1..Len(s) : s[i] = "." /\ \A j \in 1..(i - 1) : s[j] # "."

\* a coordinate as a sender writes it: the magnitude, given in millionths of
\* a degree, as whole degrees of w digits, minutes of two digits, a point
\* and four decimals of the minutes, rounded
CoordString(micro, w) ==
    LET deg == micro \div 1000000
        min4 == (((micro % 1000000) * 6) + 5) \div 10
    IN  Written(deg, w) \o Written(min4 \div 10000, 2) \o <<".">>
        \o Written(min4 % 10000, 4)

\* a decoder that gives every hemisphere the same sign
Signed_M(direction, v) == v

\* "if direction in ['S', 'W']: decimal = -decimal"
Signed(direction, v) == IF direction \in {"S", "W"} THEN 0 - v ELSE v

\* _parse_nmea_coord on a string of characters: the digits up to two before
\* the point are the degrees, the rest the minutes; degrees + minutes / 60,
\* signed, rounded to six decimals; in millionths of a degree.  None for
\* an empty string and where int() or float() raises.
ParseNmeaCoord(coord_str, direction) ==
    IF coord_str = <<>> \/ "." \notin Chars(coord_str) THEN None
    ELSE LET dot == DotPos(coord_str)
             dtxt == SubSeq(coord_str, 1, dot - 3)
             mint == SubSeq(coord_str, dot - 2, dot - 1)
             mfrac == SubSeq(coord_str, dot + 1, Len(coord_str))
         IN  IF \/ dot < 4
                \/ \E i \in 1..Len(coord_str) :
                      i # dot /\ ~IsDigit(coord_str[i])
             THEN None
             ELSE LET \* the minutes in millionths of a minute
                      minutes == IntOf(mint) * 1000000
                                 + IntOf(mfrac) * Pow10(6 - Len(mfrac))
                      \* minutes / 60 in millionths, to the nearest
                      micro == ((minutes * 2) + 60) \div 120
                  IN  Some(Signed(direction,
                                  IntOf(dtxt) * 1000000 + micro))

\* latitudes and longitudes in millionths of a degree
Latitudes ==
    {0, 1, 8, 9, 16666, 16667, 499999, 500000, 999991, 999999, 1000000,
     7123456, 48500000, 48516667, 59999999, 89999999, 90000000}
Longitudes ==
    {0, 5, 999999, 9999999, 11500000, 99999999, 100000000, 123456789,
     179999999, 180000000}

CoordCalls ==
    {[fn |-> "parse_nmea_coord", micro |-> v, direction |-> d,
      coord_str |-> CoordString(v, 2)] : v \in Latitudes, d \in {"N", "S"}}
    \cup
    {[fn |-> "parse_nmea_coord", micro |-> v, direction |-> d,
      coord_str |-> CoordString(v, 3)] : v \in Longitudes, d \in {"E", "W"}}

\* str(n) of a natural number
RECURSIVE Decimal(_)
Decimal(n) ==
    IF n < 10 THEN <<Digits[n + 1]>>
    ELSE Decimal(n \div 10) \o <<Digits[(n % 10) + 1]>>

\* s.isdigit()
IsDigits(s) == s # <<>> /\ \A i \in 1..Len(s) : IsDigit(s[i])

\* ",".join(parts)
RECURSIVE JoinComma(_)
JoinComma(parts) ==
    IF Len(parts) = 1 THEN Head(parts)
    ELSE Head(parts) \o <<",">> \o JoinComma(Tail(parts))

\* ids of SUPPORTED_SENTENCES, spelled out, and an id that is not in it
RegistryIds ==
    {<<"M", "W", "D">>, <<"H", "D", "G">>, <<"M", "W", "V", "R">>,
     <<"X", "D", "R", "B">>}
UnknownId == <<"Q", "Q", "Q">>

\* f'$PAMTC,EN,{sentence_id},{enable_flag},{interval}'
EnableCommand(id, flag, interval) ==
    JoinComma(<<<<"$", "P", "A", "M", "T", "C">>, <<"E", "N">>, id,
                Decimal(flag), Decimal(interval)>>)

\* the station's report of one sentence: the command echoed under $PAMTR, or
\* the same with the total and the index of the report before the id
Echo(cmd, layout) ==
    LET parts == SplitAt(cmd, ",")
        head == <<<<"$", "P", "A", "M", "T", "R">>, <<"E", "N">>>>
    IN  JoinComma(head
                  \o (IF layout = "indexed" THEN <<Decimal(27), Decimal(3)>>
                      ELSE <<>>)
                  \o SubSeq(parts, 3, Len(parts)))

\* line.startswith('$PAMTR,EN,')
IsEnReport(line) ==
    LET prefix == <<"$", "P", "A", "M", "T", "R", ",", "E", "N", ",">>
    IN  Len(line) >= Len(prefix) /\ SubSeq(line, 1, Len(prefix)) = prefix

\* the parse of one $PAMTR,EN line in query_sentence_config: what it adds
\* to config, None when it adds nothing.  parts[k] of the source is
\* parts[k + 1] here.
ParseEnReport(line) ==
    LET parts == SplitAt(line, ",")
    IN  IF ~IsEnReport(line) \/ Len(parts) < 6 THEN None
        ELSE LET at == IF Len(parts) >= 7 /\ parts[5] \in RegistryIds
                       THEN 5 ELSE 4
                 sentence_id == parts[at]
                 enabled == parts[at + 1] = <<"1">>
                 interval == IF IsDigits(parts[at + 2])
                             THEN IntOf(parts[at + 2]) ELSE 10
             IN  IF sentence_id \in RegistryIds
                 THEN Some([id |-> sentence_id, enabled |-> enabled,
                            interval |-> interval])
                 ELSE None

\* the largest interval the routes pass on, in tenths of a second
MaxTenths == 50

EnCalls ==
    {[fn |-> "parse_en_report", id |-> id, flag |-> flag,
      interval |-> interval, layout |-> layout] :
        id \in RegistryIds \cup {UnknownId}, flag \in {0, 1},
        interval \in 1..MaxTenths, layout \in {"plain", "indexed"}}

\* a route that passes the seconds on without the clamp
Clamp_M(hundredths) == hundredths

\* "sec = max(0.1, min(5.0, sec))", in hundredths of a second
Clamp(hundredths) ==
    IF hundredths < 10 THEN 10 ELSE IF hundredths > 500 THEN 500
    ELSE hundredths

\* int(round(sec * 10)): to the nearest tenth, a half to the even one
RoundTenths(hundredths) ==
    LET q == hundredths \div 10
        r == hundredths % 10
    IN  IF r < 5 THEN q
        ELSE IF r > 5 THEN q + 1
        ELSE IF q % 2 = 0 THEN q ELSE q + 1

\* the interval the routes /api/sentences/configure and configure-batch
\* hand to the handler: None when the body has no interval or one that
\* float() rejects
RouteInterval(raw) ==
    IF raw.kind = "number" THEN Some(RoundTenths(Clamp(raw.v)))
    ELSE IF raw.kind = "nan"
    THEN Some(RoundTenths(Clamp(10 * MaxTenths)))  \* min(5.0, nan) is 5.0
    ELSE None

\* "if interval is None: interval = ...get('default_interval', 10)"
HandlerInterval(interval) ==
    IF interval = None THEN default_interval ELSE interval[1]

\* the interval of a request body: absent, a text that is no number, or
\* seconds given in hundredths
RawIntervals ==
    {[kind |-> "absent", v |-> 0], [kind |-> "text", v |-> 0],
     [kind |-> "nan", v |-> 0]}
    \cup {[kind |-> "number", v |-> h] :
             h \in {-100, 0, 1, 9, 10, 14, 15, 16, 25, 35, 100, 104, 105, 495,
                    499, 500, 501, 1000, 100000}}

RouteCalls ==
    {[fn |-> "configure_route", route |-> route, id |-> id,
      enabled |-> enabled, raw |-> raw] :
        route \in {"configure", "configure-batch"}, id \in RegistryIds,
        enabled \in BOOLEAN, raw \in RawIntervals}

----------------------------------------------------------------------------
(* state.json.  The document is a sequence of JSON tokens: punctuation,     *)
(* keys, strings, numbers and the literals true, false and null.            *)

Tok(k, s) == [k |-> k, s |-> s]
Punct(s) == Tok("punct", s)
Key(s) == Tok("key", s)

\* a dump that writes every boolean as true
JsonBool_M(b) == Tok("lit", "true")

JsonBool(b) == Tok("lit", IF b THEN "true" ELSE "false")
JsonInt(n) == Tok("num", ToString(n))
\* the port: a string, or null for None
JsonPort(port) == IF port = "None" THEN Tok("lit", "null") ELSE Tok("str", port)

\* the numbers that occur in a document
DocNumbers == Bauds \cup (0..MaxTenths)
IsJsonInt(tok) == tok.k = "num" /\ \E n \in DocNumbers : ToString(n) = tok.s
IntOfJson(tok) == CHOOSE n \in DocNumbers : ToString(n) = tok.s

\* one entry of sentence_config as it is dumped
EntryTokens(e) ==
    <<Key(e.id), Punct("{"), Key("enabled"), JsonBool(e.enabled),
      Key("interval"), JsonInt(e.interval), Punct("}")>>

RECURSIVE EntriesTokens(_)
EntriesTokens(cfg) ==
    IF cfg = <<>> THEN <<>>
    ELSE EntryTokens(Head(cfg)) \o EntriesTokens(Tail(cfg))

\* json.dump(self.state, f) after save_state has put list(selected) and
\* is_streaming in the dictionary; c.selected is that list
Document(c) ==
    <<Punct("{"), Key("port"), JsonPort(c.port), Key("baud_rate"),
      JsonInt(c.baud_rate), Key("is_streaming"), JsonBool(c.is_streaming),
      Key("selected_message_types"), Punct("[")>>
    \o [i \in 1..Len(c.selected) |-> Tok("str", c.selected[i])]
    \o <<Punct("]"), Key("sentence_config"), Punct("{")>>
    \o EntriesTokens(c.sentence_config)
    \o <<Punct("}"), Punct("}")>>

\* the dictionary a well-formed document describes, read off by position
Described(tokens) ==
    LET close == CHOOSE i \in 10..Len(tokens) :
                     /\ tokens[i] = Punct("]")
                     /\ \A j \in 10..(i - 1) : tokens[j] # Punct("]")
        entries == (Len(tokens) - close - 4) \div 7
        at(j) == close + 3 + (7 * (j - 1))
    IN  [port |-> IF tokens[3] = Tok("lit", "null") THEN "None"
                  ELSE tokens[3].s,
         baud_rate |-> IntOfJson(tokens[5]),
         is_streaming |-> tokens[7] = Tok("lit", "true"),
         selected |-> [j \in 1..(close - 10) |-> tokens[9 + j].s],
         sentence_config |->
             [j \in 1..entries |->
                 [id |-> tokens[at(j)].s,
                  enabled |-> tokens[at(j) + 3] = Tok("lit", "true"),
                  interval |-> IntOfJson(tokens[at(j) + 5])]]]

\* json.load: the dictionary of a document, None where it raises
ParseDocument(tokens) ==
    IF /\ Len(tokens) >= 14
       /\ \E i \in 10..Len(tokens) : tokens[i] = Punct("]")
       /\ LET close == CHOOSE i \in 10..Len(tokens) :
                           /\ tokens[i] = Punct("]")
                           /\ \A j \in 10..(i - 1) : tokens[j] # Punct("]")
          IN  /\ Len(tokens) >= close + 4
              /\ (Len(tokens) - close - 4) % 7 = 0
              /\ IsJsonInt(tokens[5])
              /\ \A j \in 1..((Len(tokens) - close - 4) \div 7) :
                    IsJsonInt(tokens[close + 3 + (7 * (j - 1)) + 5])
       /\ Document(Described(tokens)) = tokens
    THEN Some(Described(tokens))
    ELSE None

\* the persisted configuration of a handler: the state dictionary with the
\* selection as the set the handler holds
SetOf(list) == {list[i] : i \in 1..Len(list)}
ConfigOf(d) == [d EXCEPT !.selected = SetOf(d.selected)]

\* list(self.selected_message_types): the set in any order
ListsOf(S) ==
    {f \in [1..Cardinality(S) -> S] :
        \A i, j \in 1..Cardinality(S) : i # j => f[i] # f[j]}

\* load_state on the file save_state wrote for the configuration c with
\* the selection listed in the given order: the configuration that results,
\* the defaults kept where json.load raises
DefaultConfig ==
    [port |-> "None", baud_rate |-> B4800, is_streaming |-> FALSE,
     selected |-> {}, sentence_config |-> <<>>]
LoadOfSave(c, order) ==
    LET loaded == ParseDocument(Document([c EXCEPT !.selected = order]))
    IN  IF loaded = None THEN DefaultConfig ELSE ConfigOf(loaded[1])

\* entries of sentence_config
ConfigEntries ==
    {<<>>,
     <<[id |-> "MWD", enabled |-> TRUE, interval |-> 10]>>,
     <<[id |-> "MWD", enabled |-> FALSE, interval |-> 1],
       [id |-> "XDRB", enabled |-> TRUE, interval |-> 50]>>}

\* persisted configurations
PersistedConfigs ==
    [port : {"None", "P"}, baud_rate : Bauds, is_streaming : BOOLEAN,
     selected : SUBSET {"HCHDG", "WIMWV"}, sentence_config : ConfigEntries]

StoreCalls ==
    UNION {{[fn |-> "save_load", config |-> c, order |-> o] :
               o \in ListsOf(c.selected)} : c \in PersistedConfigs}

----------------------------------------------------------------------------
(* The functions above, each called once on an input of its own *)

Calls == SplitCalls \cup CoordCalls \cup EnCalls \cup RouteCalls \cup StoreCalls

CallInit ==
    /\ Constructed
    /\ dev_mode = "silent"
    /\ dev_obeys
    /\ dev_baud = B4800
    /\ selected_message_types = {}
    /\ state = InitState
    /\ state_file = None
    /\ rx = <<>>
    /\ disk = <<>>
    /\ saving = <<>>
    /\ call \in Calls
    /\ ret = None
    /\ OneControl

Returns(v) ==
    /\ ret = None
    /\ ret' = Some(v)
    /\ UNCHANGED <<handlerVars, streamVars, storeVars, sensorVars, readerVars,
                   ctlVars, devVars, rx, logVars, touch, now, serial_health,
                   message_history, udp_sent, last_serial_read_error_log,
                   warn_log, disk, saving, call, poolVars>>

\* the reader's "for data in self._split_nmea_sentences(raw)" with the type
\* it gives each sentence
split_nmea_sentences ==
    /\ call.fn = "split_nmea_sentences"
    /\ LET lines == SplitNmeaSentences(call.data)
       IN  Returns([lines |-> lines,
                    types |-> [i \in 1..Len(lines) |-> MsgType(lines[i])]])

parse_nmea_coord_call ==
    /\ call.fn = "parse_nmea_coord"
    /\ Returns(ParseNmeaCoord(call.coord_str, call.direction))

\* the command of configure_sentence, echoed by the station and parsed by
\* query_sentence_config
parse_en_report ==
    /\ call.fn = "parse_en_report"
    /\ Returns(ParseEnReport(Echo(EnableCommand(call.id, call.flag,
                                                call.interval),
                                  call.layout)))

\* a configure route and the handler behind it: the interval written to
\* the station and the one put in sentence_config
configure_route ==
    /\ call.fn = "configure_route"
    /\ LET interval == HandlerInterval(RouteInterval(call.raw))
       IN  Returns([written |-> interval, persisted |-> interval])

\* save_state, then load_state in a new process
save_load ==
    /\ call.fn = "save_load"
    /\ Returns(LoadOfSave(call.config, call.order))

CallNext ==
    \/ split_nmea_sentences
    \/ parse_nmea_coord_call
    \/ parse_en_report
    \/ configure_route
    \/ save_load

CallSpec == CallInit /\ [][CallNext]_vars

----------------------------------------------------------------------------
(* The reader on a port whose readline raises: the throttle of the warning  *)
(* for spurious no-data errors.  now counts the seconds since the handler   *)
(* was made; time.time() is Epoch seconds ahead of it.                      *)

\* time.time() when the handler is made
Epoch == 1000
time_time == Epoch + now

\* read errors of one kind followed
MaxErrors == 11
\* the readings of the clock that are followed, in seconds
Instants == {0, 1, 2, 29, 30, 31}

\* a reader that warns on every error
MayWarn_M(t) == TRUE

\* "if now - self._last_serial_read_error_log >= 30"
MayWarn(t) == t - last_serial_read_error_log >= 30

\* a first Connect at 38400 has returned success: the reader runs, the
\* operator's selection is streamed, nothing has been read yet
Connected38400 ==
    /\ serial_connection = "open"
    /\ ser_baud = B38400
    /\ connection_status = CONN_STATUS_CONNECTED
    /\ detected_baud = B38400
    /\ connected_since = Some("now")
    /\ messages_received = 0
    /\ should_stop = FALSE
    /\ serial_lock = "free"
    /\ is_streaming = TRUE
    /\ udp_socket = TRUE
    /\ streamed_messages = 0
    /\ selected_message_types = OperatorTypes
    /\ state = [InitState EXCEPT !.selected_message_types = OperatorTypes,
                                !.is_streaming = TRUE, !.port = "P",
                                !.baud_rate = B38400]
    /\ state_file = Some(state)
    /\ sensor_data = [s \in SubRecords |-> [f \in SubRecordFields[s] |-> None]]
    /\ sensor_history = [k \in HistorySeries |-> <<>>]
    /\ rpc = "loop"
    /\ r_line = NoLine
    /\ cpc = "idle"
    /\ op = "connect"
    /\ ops = 1
    /\ arg = [NoArg EXCEPT !.port = "P", !.pref = B38400]
    /\ attempt = 0
    /\ current_baud = NoBaud
    /\ conn_open = FALSE
    /\ valid_count = 0
    /\ budget = 0
    /\ idx = 0
    /\ changes = <<>>
    /\ config = {}
    /\ result = "ok"
    /\ dev_mode = "emitting"
    /\ dev_obeys = TRUE
    /\ dev_baud = B38400
    /\ dev_on = TRUE
    /\ dev_pending = NoBaud
    /\ dev_resp = 0
    /\ rx = <<>>
    /\ attempt_log = <<B38400>>
    /\ status_log = <<CONN_STATUS_TRYING_38400, CONN_STATUS_ENABLING_SENTENCES,
                      CONN_STATUS_CONNECTED>>
    /\ cmd_log = <<"$PAMTX,1", "$PAMTX,1">>
                 \o [i \in 1..Len(REQUIRED_SENTENCES) |->
                        EnableCmd(REQUIRED_SENTENCES[i], 1, default_interval)]
    /\ open_mark = 0
    /\ touch = "none"
    /\ now = 0
    /\ serial_health = [c \in HealthCounters |-> 0]
    /\ message_history = <<>>
    /\ udp_sent = <<>>
    /\ last_serial_read_error_log = 0
    /\ warn_log = <<>>

ThrottleInit == Connected38400 /\ Whole

\* "while not self.should_stop", then the open test of the connection
poll_loop ==
    /\ rpc = "loop"
    /\ IF should_stop
       THEN rpc' = "dead"
       ELSE /\ serial_connection = "open"
            /\ rpc' = "want"
    /\ touch' = "none"
    /\ UNCHANGED <<handlerVars, streamVars, storeVars, sensorVars, r_line,
                   ctlVars, devVars, rx, logVars, obsVars>>

\* the readline returns a sentence, or raises an error whose text holds
\* 'returned no data' or 'multiple access', or raises another error.  The
\* first kind is counted in nodata_exceptions and warned about when the last
\* warning is 30 s old; the other in other_read_exceptions.  Either way
\* got_data is false: empty_reads.
poll_return ==
    /\ rpc = "in_read"
    /\ serial_lock' = "free"
    /\ \/ /\ rx # <<>>
          /\ rx' = Tail(rx)
          /\ r_line' = Head(rx)
          /\ rpc' = "count"
          /\ UNCHANGED <<serial_health, last_serial_read_error_log, warn_log>>
       \/ /\ serial_health["nodata_exceptions"] < MaxErrors
          /\ serial_health' =
                EmptyRead(Bump(serial_health, "nodata_exceptions"))
          /\ IF MayWarn(time_time)
             THEN /\ last_serial_read_error_log' = time_time
                  /\ warn_log' =
                        Append(warn_log,
                               [t |-> time_time,
                                n |-> serial_health'["nodata_exceptions"]])
             ELSE UNCHANGED <<last_serial_read_error_log, warn_log>>
          /\ rpc' = "loop"
          /\ UNCHANGED <<rx, r_line>>
       \/ /\ serial_health["other_read_exceptions"] < 1
          /\ serial_health' =
                EmptyRead(Bump(serial_health, "other_read_exceptions"))
          /\ rpc' = "loop"
          /\ UNCHANGED <<rx, r_line, last_serial_read_error_log, warn_log>>
    /\ touch' = "reader"
    /\ UNCHANGED <<serial_connection, ser_baud, connection_status,
                   detected_baud, connected_since, messages_received,
                   should_stop, streamVars, storeVars, sensorVars, ctlVars,
                   devVars, logVars, now, message_history, udp_sent,
                   disk, saving, call, ret, poolVars>>

\* the station's heading sentence reaches the input buffer
port_line ==
    /\ Len(rx) < MaxRx
    /\ messages_received + Len(rx) < MaxMsgs
    /\ rx' = Append(rx, Good("HCHDG", <<"2", "", "", "", "">>))
    /\ touch' = "none"
    /\ UNCHANGED <<handlerVars, streamVars, storeVars, sensorVars, readerVars,
                   ctlVars, devVars, logVars, obsVars>>

\* the clock moves on to a later instant
Elapse ==
    /\ \E later \in Instants :
          /\ later > now
          /\ now' = later
    /\ UNCHANGED <<handlerVars, streamVars, storeVars, sensorVars, readerVars,
                   ctlVars, devVars, rx, logVars, touch, serial_health,
                   message_history, udp_sent, benchVars>>

ThrottleNext ==
    \/ poll_loop
    \/ rd_acquire
    \/ poll_return
    \/ read_count
    \/ rd_select
    \/ read_parse
    \/ read_stream
    \/ read_send
    \/ read_streamed
    \/ port_line
    \/ Elapse

ThrottleSpec == ThrottleInit /\ [][ThrottleNext]_vars

----------------------------------------------------------------------------
(* save_state statement by statement, called by the reader thread and by    *)
(* the control thread of a running session, and load_state of the process   *)
(* that follows when this one stops.  disk is None while state.json does    *)
(* not exist, else the tokens it holds.                                     *)

Savers == {"ctl", "reader"}

\* a thread outside save_state
Resting == [pc |-> "idle", buf |-> <<>>, doc |-> InitState]

\* the types the reader meets
MetTypes == {"HCHDG", "WIMWV"}

\* the document json.dump writes for the state dictionary st with the
\* selection listed in the given order
DocumentOf(st, order) ==
    Document([port |-> st.port, baud_rate |-> st.baud_rate,
              is_streaming |-> st.is_streaming, selected |-> order,
              sentence_config |-> st.sentence_config])

\* the session of Connected38400 with the state file its Connect saved
StoreInit ==
    /\ Connected38400
    /\ disk = Some(DocumentOf(state, <<"HCHDG">>))
    /\ saving = [th \in Savers |-> Resting]
    /\ call = None
    /\ ret = None
    /\ OneControl

StoreFrame ==
    UNCHANGED <<serial_connection, ser_baud, connection_status, detected_baud,
                connected_since, messages_received, should_stop, serial_lock,
                udp_socket, streamed_messages, sensorVars, readerVars,
                ctlVars, devVars, rx, logVars, touch, now, serial_health,
                message_history, udp_sent, last_serial_read_error_log,
                warn_log, call, poolVars>>

\* the reader meets a type that is not selected: it is added to the
\* selection and to the state dictionary, and save_state is called
reader_selects ==
    /\ saving["reader"].pc = "idle"
    /\ \E type \in MetTypes \ selected_message_types :
          /\ selected_message_types' = selected_message_types \cup {type}
          /\ state' = [state EXCEPT !.selected_message_types =
                                       selected_message_types']
    /\ saving' = [saving EXCEPT !["reader"].pc = "begin"]
    /\ StoreFrame
    /\ UNCHANGED <<is_streaming, state_file, disk, ret>>

\* start_streaming or stop_streaming on the control thread, up to its
\* call of save_state
ctl_streams ==
    /\ saving["ctl"].pc = "idle"
    /\ is_streaming' = ~is_streaming
    /\ saving' = [saving EXCEPT !["ctl"].pc = "begin"]
    /\ StoreFrame
    /\ UNCHANGED <<selected_message_types, storeVars, disk, ret>>

\* save_state: the selection and the flag are put in the state dictionary
save_begin(th) ==
    /\ saving[th].pc = "begin"
    /\ state' = Saved(state, selected_message_types, is_streaming)
    /\ saving' = [saving EXCEPT ![th].pc = "open"]
    /\ StoreFrame
    /\ UNCHANGED <<is_streaming, selected_message_types, state_file, disk,
                   ret>>

\* open(self.state_path, 'w'): the file is made, or cut to nothing
save_open(th) ==
    /\ saving[th].pc = "open"
    /\ disk' = Some(<<>>)
    /\ saving' = [saving EXCEPT ![th].pc = "dump"]
    /\ StoreFrame
    /\ UNCHANGED <<is_streaming, selected_message_types, storeVars, ret>>

\* json.dump(self.state, f): the document goes to the buffer of f
save_dump(th) ==
    /\ saving[th].pc = "dump"
    /\ \E order \in ListsOf(state.selected_message_types) :
          saving' = [saving EXCEPT ![th] =
                        [pc |-> "close", buf |-> DocumentOf(state, order),
                         doc |-> state]]
    /\ StoreFrame
    /\ UNCHANGED <<is_streaming, selected_message_types, storeVars, disk,
                   ret>>

\* what a write of buf at offset 0 leaves of a file
Overwritten(old, buf) == buf \o SubSeq(old, Len(buf) + 1, Len(old))

\* the end of "with open(...) as f": the buffer is written at the start of
\* the file, what the file holds beyond it stays
save_close(th) ==
    /\ saving[th].pc = "close"
    /\ disk' = Some(Overwritten(disk[1], saving[th].buf))
    /\ state_file' = Some(saving[th].doc)
    /\ saving' = [saving EXCEPT ![th] = Resting]
    /\ StoreFrame
    /\ UNCHANGED <<is_streaming, selected_message_types, state, ret>>

\* the process stops, wherever its threads are
process_stops ==
    /\ \E th \in Savers : saving[th].pc # "stopped"
    /\ saving' = [th \in Savers |-> [Resting EXCEPT !.pc = "stopped"]]
    /\ StoreFrame
    /\ UNCHANGED <<is_streaming, selected_message_types, storeVars, disk,
                   ret>>

\* load_state of the next process: the defaults of __init__, updated from
\* the file when it exists and json.load does not raise.  ret keeps what
\* the load met.
load_state ==
    /\ \A th \in Savers : saving[th].pc = "stopped"
    /\ ret = None
    /\ LET loaded == IF disk = None THEN None ELSE ParseDocument(disk[1])
       IN  /\ ret' = Some([exists |-> disk # None, doc |-> loaded])
           /\ IF loaded = None
              THEN /\ state' = InitState
                   /\ selected_message_types' = {}
                   /\ is_streaming' = FALSE
              ELSE /\ state' =
                         [port |-> loaded[1].port,
                          baud_rate |-> loaded[1].baud_rate,
                          is_streaming |-> loaded[1].is_streaming,
                          selected_message_types |-> SetOf(loaded[1].selected),
                          sentence_config |-> loaded[1].sentence_config]
                   /\ selected_message_types' = SetOf(loaded[1].selected)
                   /\ is_streaming' = loaded[1].is_streaming
    /\ StoreFrame
    /\ UNCHANGED <<state_file, disk, saving>>

StoreNext ==
    \/ reader_selects
    \/ ctl_streams
    \/ \E th \in Savers :
          \/ save_begin(th)
          \/ save_open(th)
          \/ save_dump(th)
          \/ save_close(th)
    \/ process_stops
    \/ load_state

StoreSpec == StoreInit /\ [][StoreNext]_vars

----------------------------------------------------------------------------
(* The link on a port that can fail under an operation: the adapter is      *)
(* unplugged, or taken by another process, so that a write, a read or an    *)
(* open raises.                                                              *)

\* _try_baud_rate: serial.Serial has returned and conn.write raises; the
\* outer except clause returns (False, None) without conn.close(), and conn
\* stays open until the interpreter finalises the object: when the function
\* returns, or not at all
tb_write_raises ==
    /\ cpc = "tb_open"
    /\ Openable(arg.port)
    /\ ~conn_open
    /\ attempt_log' = Append(attempt_log, current_baud)
    /\ \E finalised \in BOOLEAN : conn_open' = ~finalised
    /\ rx' = <<>>
    /\ attempt' = attempt + 1
    /\ cpc' = "cs_attempt"
    /\ touch' = "local"
    /\ UNCHANGED <<handlerVars, streamVars, storeVars, sensorVars, readerVars,
                   op, arg, ops, current_baud, valid_count, budget, idx,
                   changes, config, result, devVars, status_log, cmd_log,
                   open_mark>>
    /\ UNCHANGED obsVars

\* the statements of _switch_to_38400 that can raise: the two writes, the
\* readlines of the watch and of the confirmation, the reopen
SwitchRaisers == {"sw_begin", "sw_baud", "sw_watch", "sw_reopen", "sw_confirm"}

\* _switch_to_38400: one of them raises; the except clause returns
\* (False, str(e)) to connect_serial
sw_raises ==
    /\ cpc \in SwitchRaisers
    /\ IF cpc = "sw_begin"
       THEN SetStatus(CONN_STATUS_SWITCHING_BAUD)
       ELSE UNCHANGED <<connection_status, status_log>>
    /\ cpc' = "sw_failed"
    /\ touch' = Touched
    /\ UNCHANGED <<serial_connection, ser_baud, detected_baud, connected_since,
                   messages_received, should_stop, serial_lock, streamVars,
                   storeVars, sensorVars, readerVars, op, arg, ops, attempt,
                   current_baud, conn_open, valid_count, budget, idx, changes,
                   config, result, devVars, rx, attempt_log, cmd_log,
                   open_mark>>
    /\ UNCHANGED obsVars

\* the statements of change_baud_rate that can raise: the three writes and
\* the reopen
BaudRaisers == {"cb_stop", "cb_cmd", "cb_reopen", "cb_start"}

\* change_baud_rate: one of them raises; the except clause returns
\* (False, str(e)) and nothing is undone
cb_raises ==
    /\ cpc \in BaudRaisers
    /\ Return("fail")
    /\ touch' = Touched
    /\ UNCHANGED <<handlerVars, streamVars, storeVars, sensorVars, readerVars,
                   op, arg, ops, conn_open, devVars, rx, logVars>>
    /\ UNCHANGED obsVars

\* no state file; the station emits, at 4800 until it is told otherwise
FaultInit ==
    /\ Constructed
    /\ Whole
    /\ selected_message_types = {}
    /\ state = InitState
    /\ state_file = None
    /\ rx = <<>>
    /\ dev_mode = "emitting"
    /\ dev_baud = B4800

\* operations the control thread starts on the failing port
MaxFaultOps == 2

\* connect_serial and change_baud_rate as the operations of this system
fp_connect(pref) ==
    /\ ops < MaxFaultOps
    /\ connect_serial("P", pref)

fp_change_baud(new) ==
    /\ ops < MaxFaultOps
    /\ change_baud_rate(new)

FaultNext ==
    \/ \E pref \in PrefRates : fp_connect(pref)
    \/ cs_stop
    \/ cs_join
    \/ cs_close
    \/ cs_exists
    \/ cs_attempt
    \/ tb_open
    \/ tb_write_raises
    \/ tb_read
    \/ sw_begin
    \/ sw_baud
    \/ sw_watch
    \/ sw_close
    \/ sw_reopen
    \/ sw_confirm
    \/ sw_raises
    \/ sw_failed
    \/ en_begin
    \/ en_write
    \/ rp_begin
    \/ cs_reader
    \/ cs_state
    \/ cs_defaults
    \/ cs_stream
    \/ \E new \in Bauds : fp_change_baud(new)
    \/ cb_stop
    \/ cb_cmd
    \/ cb_close
    \/ cb_reopen
    \/ cb_start
    \/ cb_raises
    \/ Reader
    \/ Device

FaultSpec == FaultInit /\ [][FaultNext]_vars

----------------------------------------------------------------------------
(* The reader threads under two request handlers.  The server hands every   *)
(* request to a thread of its pool, and connect_serial and                  *)
(* disconnect_serial take no lock: two calls can be under way at once.      *)
(* Followed here are the statements of the two operations that concern the  *)
(* reader thread: stop_reader_thread, start_reader_thread, the handle they  *)
(* test, and the loop test of every thread made from _read_serial_loop.     *)
(* The negotiation of a Connect is one step that is accepted or not.        *)

Handlers == {1, 2}

\* calls the handlers start
MaxCalls == 3

\* the reader threads the calls can start
ReaderIds == 1..MaxCalls

\* a handler between two requests
Waiting == [pc |-> "idle", th |-> None]

\* the handler after __init__, with the two handlers waiting
PoolInit ==
    /\ Constructed
    /\ disk = <<>>
    /\ saving = <<>>
    /\ call = None
    /\ ret = None
    /\ selected_message_types = {}
    /\ state = InitState
    /\ state_file = None
    /\ rx = <<>>
    /\ dev_mode = "emitting"
    /\ dev_obeys
    /\ dev_baud = B38400
    /\ reader_thread = None
    /\ readers = <<>>
    /\ handler = [h \in Handlers |-> Waiting]

\* what the steps of this system leave alone
PoolFrame ==
    UNCHANGED <<ser_baud, connection_status, detected_baud, connected_since,
                messages_received, serial_lock, streamVars, storeVars,
                sensorVars, readerVars, cpc, op, arg, attempt, current_baud,
                conn_open, valid_count, budget, idx, changes, config, result,
                devVars, rx, logVars, touch, now, serial_health,
                message_history, udp_sent, last_serial_read_error_log,
                warn_log, disk, saving, call, ret>>

\* thread.is_alive()
IsAlive(th) == th # None /\ readers[th[1]] # "dead"

\* the threads made from _read_serial_loop that have not returned
LiveReaders == {i \in DOMAIN readers : readers[i] # "dead"}

At(h, pc) == handler[h].pc = pc
Goto(h, pc) == handler' = [handler EXCEPT ![h].pc = pc]

\* a request for connect_serial arrives: the cleanup test
pool_connect(h) ==
    /\ At(h, "idle")
    /\ ops < MaxCalls
    /\ ops' = ops + 1
    /\ Goto(h, IF serial_connection = "open" THEN "cs_stop" ELSE "cs_try")
    /\ UNCHANGED <<serial_connection, should_stop, reader_thread, readers>>
    /\ PoolFrame

\* a request for disconnect_serial arrives
pool_disconnect(h) ==
    /\ At(h, "idle")
    /\ ops < MaxCalls
    /\ ops' = ops + 1
    /\ Goto(h, "ds_stop")
    /\ UNCHANGED <<serial_connection, should_stop, reader_thread, readers>>
    /\ PoolFrame

\* stop_reader_thread: the flag, and the test of the thread to join
pool_stop(h) ==
    /\ handler[h].pc \in {"cs_stop", "ds_stop"}
    /\ should_stop' = TRUE
    /\ handler' =
          [handler EXCEPT
              ![h].pc = IF IsAlive(reader_thread)
                        THEN (IF At(h, "cs_stop") THEN "cs_join" ELSE "ds_join")
                        ELSE (IF At(h, "cs_stop") THEN "cs_close" ELSE "ds_close"),
              ![h].th = reader_thread]
    /\ UNCHANGED <<serial_connection, ops, reader_thread, readers>>
    /\ PoolFrame

\* join(timeout=1.0) returns: the thread has returned, or it is inside a
\* readline that outlasts the deadline
pool_join(h) ==
    /\ handler[h].pc \in {"cs_join", "ds_join"}
    /\ readers[handler[h].th[1]] \in {"dead", "read"}
    /\ Goto(h, IF At(h, "cs_join") THEN "cs_close" ELSE "ds_close")
    /\ UNCHANGED <<serial_connection, should_stop, ops, reader_thread,
                   readers>>
    /\ PoolFrame

\* the handle is closed and unset; disconnect_serial returns
pool_close(h) ==
    /\ handler[h].pc \in {"cs_close", "ds_close"}
    /\ serial_connection' = "None"
    /\ handler' = IF At(h, "cs_close")
                  THEN [handler EXCEPT ![h].pc = "cs_try"]
                  ELSE [handler EXCEPT ![h] = Waiting]
    /\ UNCHANGED <<should_stop, ops, reader_thread, readers>>
    /\ PoolFrame

\* the negotiation: a rate is accepted and the handle is set, or the
\* attempts are used up and connect_serial returns failure
pool_try(h) ==
    /\ At(h, "cs_try")
    /\ \/ /\ serial_connection' = "open"
          /\ Goto(h, "cs_reader")
       \/ /\ handler' = [handler EXCEPT ![h] = Waiting]
          /\ UNCHANGED serial_connection
    /\ UNCHANGED <<should_stop, ops, reader_thread, readers>>
    /\ PoolFrame

\* start_reader_thread: "if self.reader_thread is None or not
\* self.reader_thread.is_alive()"
pool_test(h) ==
    /\ At(h, "cs_reader")
    /\ handler' = IF IsAlive(reader_thread)
                  THEN [handler EXCEPT ![h] = Waiting]
                  ELSE [handler EXCEPT ![h].pc = "cs_start"]
    /\ UNCHANGED <<serial_connection, should_stop, ops, reader_thread,
                   readers>>
    /\ PoolFrame

\* start_reader_thread: the flag is cleared, a thread is made, kept in
\* self.reader_thread and started; connect_serial goes on to return success
pool_start(h) ==
    /\ At(h, "cs_start")
    /\ should_stop' = FALSE
    /\ readers' = Append(readers, "loop")
    /\ reader_thread' = Some(Len(readers) + 1)
    /\ handler' = [handler EXCEPT ![h] = Waiting]
    /\ UNCHANGED <<serial_connection, ops>>
    /\ PoolFrame

\* _read_serial_loop of thread i: "while not self.should_stop", then the
\* open test of the handle and the readline
pool_loop(i) ==
    /\ i \in DOMAIN readers
    /\ readers[i] = "loop"
    /\ IF should_stop
       THEN readers' = [readers EXCEPT ![i] = "dead"]
       ELSE /\ serial_connection = "open"
            /\ readers' = [readers EXCEPT ![i] = "read"]
    /\ UNCHANGED <<serial_connection, should_stop, ops, reader_thread,
                   handler>>
    /\ PoolFrame

\* the readline of thread i returns and the pass ends
pool_read(i) ==
    /\ i \in DOMAIN readers
    /\ readers[i] = "read"
    /\ readers' = [readers EXCEPT ![i] = "loop"]
    /\ UNCHANGED <<serial_connection, should_stop, ops, reader_thread,
                   handler>>
    /\ PoolFrame

PoolNext ==
    \/ \E h \in Handlers : pool_connect(h)
    \/ \E h \in Handlers : pool_disconnect(h)
    \/ \E h \in Handlers : pool_stop(h)
    \/ \E h \in Handlers : pool_join(h)
    \/ \E h \in Handlers : pool_close(h)
    \/ \E h \in Handlers : pool_try(h)
    \/ \E h \in Handlers : pool_test(h)
    \/ \E h \in Handlers : pool_start(h)
    \/ \E i \in ReaderIds : pool_loop(i)
    \/ \E i \in ReaderIds : pool_read(i)

PoolSpec == PoolInit /\ [][PoolNext]_vars

----------------------------------------------------------------------------
(* Claims *)

ConnectReturned == cpc = "idle" /\ op = "connect"
ConnectOk == ConnectReturned /\ result = "ok"
DisconnectOk == cpc = "idle" /\ op = "disconnect" /\ result = "ok"

\* C1: whenever connect_serial returns success, state['baud_rate'] is 38400
\* and the open serial handle runs at 38400, whatever rate the station was
\* detected at and whatever rate the caller preferred
C1_LinkAt38400 ==
    ConnectOk =>
        /\ state.baud_rate = 38400
        /\ serial_connection = "open"
        /\ ser_baud = 38400

\* a success after a detection at 4800 although the caller preferred 38400
C1_Witness == ConnectOk /\ detected_baud = 4800 /\ arg.pref = 38400

\* C2: no control operation reads, writes, closes or reopens the serial
\* handle while the reader is inside its line read
C2_HandleExclusive ==
    touch \in {"locked", "unlocked"} => rpc # "in_read"

\* C3: between the write of $PAMTC,EN,Q and the return of the query the
\* reader is not inside a read, and no $PAMTR,EN line that arrived in that
\* window is counted by the reader
C3_QueryOwnsResponses ==
    /\ InQueryWindow => rpc # "in_read"
    /\ ~(rpc = "select" /\ r_line.type = "PAMTR" /\ r_line.win)

\* C4: after disconnect_serial has returned success no reader thread is
\* alive
C4_NoReaderAfterDisconnect == DisconnectOk => rpc = "dead"

\* C5: after disconnect_serial has returned success the status is
\* disconnected, the handle is closed and unset, streaming is stopped,
\* messages_received is 0, connected_since and detected_baud are unset and
\* the persisted port is null
C5_DisconnectResets ==
    DisconnectOk =>
        /\ connection_status = "disconnected"
        /\ serial_connection = "None"
        /\ ~is_streaming
        /\ messages_received = 0
        /\ connected_since = None
        /\ detected_baud = NoBaud
        /\ state_file # None
        /\ state_file[1].port = "None"

\* C6: after disconnect_serial has returned success, and with the reader
\* thread gone, every sub-record of the sensor snapshot has all fields null
\* and every history series is empty
C6_SnapshotCleared ==
    (DisconnectOk /\ rpc = "dead") =>
        /\ \A sub \in SubRecords :
              \A f \in SubRecordFields[sub] : sensor_data[sub][f] = None
        /\ \A k \in HistorySeries : sensor_history[k] = <<>>

\* C7: every call of connect_serial returns, whatever the station does
C7_ConnectTerminates ==
    (op = "connect" /\ cpc # "idle") ~> (cpc = "idle")

\* C8: one call of connect_serial opens the port for detection at most 6
\* times, alternating between the two rates and starting with 38400 only when
\* that is the preferred rate; a call that returns failure leaves the status
\* failed, and on an existing port it fails only with the 6 attempts used up
C8_AttemptBudget ==
    op = "connect" =>
        /\ Len(attempt_log) <= 6
        /\ \A i \in 1..Len(attempt_log) :
              attempt_log[i] =
                 IF (i % 2 = 1) = (arg.pref = 38400) THEN 38400 ELSE 4800
        /\ (cpc = "idle" /\ result = "fail") =>
              /\ connection_status = "failed"
              /\ arg.port = "P" => Len(attempt_log) = 6
        /\ cpc = "idle" => result \in {"ok", "fail"}

\* a failure after six attempts that began with the preferred 38400
C8_Witness ==
    /\ ConnectReturned
    /\ result = "fail"
    /\ arg.pref = 38400
    /\ attempt_log = <<38400, 4800, 38400, 4800, 38400, 4800>>

\* C9: a connect without preferred rate whose first attempt, at 4800, is
\* accepted and whose switch succeeds sets the status to exactly trying_4800,
\* switching_baud, enabling_sentences, connected, in that order, and returns
\* with detected_baud = 4800 and baud_rate = 38400
C9_ColdStartStatus ==
    (ConnectOk /\ arg.pref = NoBaud /\ attempt_log = <<4800>>) =>
        /\ status_log = <<"trying_4800", "switching_baud",
                          "enabling_sentences", "connected">>
        /\ connection_status = "connected"
        /\ detected_baud = 4800
        /\ state.baud_rate = 38400

C9_Witness ==
    /\ ConnectOk
    /\ arg.pref = NoBaud
    /\ attempt_log = <<4800>>
    /\ dev_obeys
    /\ dev_baud = 38400

\* the commands written since the port-open of the last detection attempt
SentSinceOpen == SubSeq(cmd_log, open_mark + 1, Len(cmd_log))

\* the connect returned success after a detection at 4800
ColdStartDone == ConnectOk /\ detected_baud = 4800

RequiredLines ==
    <<"$PAMTC,EN,MWVT,1,10", "$PAMTC,EN,MWD,1,10", "$PAMTC,EN,HDT,1,10",
      "$PAMTC,EN,ROT,1,10", "$PAMTC,EN,ZDA,1,10">>

\* one line per entry of the persisted sentence_config, in its order
PersistedLines ==
    [i \in 1..Len(state.sentence_config) |->
        "$PAMTC,EN," \o state.sentence_config[i].id \o ","
        \o (IF state.sentence_config[i].enabled THEN "1" ELSE "0") \o ","
        \o ToString(state.sentence_config[i].interval)]

C11_WarmStart ==
    [][(op' = "connect" /\ arg'.pref = B38400) =>
          /\ attempt_log' # <<>> => attempt_log'[1] = B38400
          /\ (cpc = "tb_read" /\ current_baud = B38400
                 /\ valid_count' = valid_count + 1)
               => (cpc' = "en_begin" /\ detected_baud' = B38400)
          /\ Len(attempt_log') = 1 =>
                \A i \in 1..Len(cmd_log') : cmd_log'[i] # BaudCmd(B38400)
      ]_vars

\* a warm start that returned success after its single attempt
C11_Witness ==
    /\ ConnectOk
    /\ arg.pref = B38400
    /\ attempt_log = <<B38400>>
    /\ detected_baud = B38400
    /\ cmd_log # <<>>

\* C12: when the port does not exist or cannot be opened, Connect makes no
\* further port-open attempt, and it returns failure with status failed
C12_NoRetry ==
    (op = "connect" /\ ~(PathExists(arg.port) /\ Openable(arg.port))) =>
        /\ Len(attempt_log) <= 1
        /\ cpc = "idle" =>
              (result = "fail" /\ connection_status = CONN_STATUS_FAILED)

\* C16: in every history series all entries lie within history_duration
\* (900 s) of each other, they are in non-decreasing order of time, and no
\* entry holds a null value
C16_HistoryWindow ==
    \A k \in HistorySeries :
        \A i, j \in 1..Len(sensor_history[k]) :
            /\ sensor_history[k][i].t - sensor_history[k][j].t
                  <= history_duration
            /\ i <= j => sensor_history[k][i].t <= sensor_history[k][j].t
            /\ sensor_history[k][i].v # None

\* a series that holds two entries exactly 900 s apart, at a time when an
\* entry recorded at second 0 would be too old
C16_Witness ==
    \E k \in HistorySeries :
        /\ Len(sensor_history[k]) >= 2
        /\ sensor_history[k][Len(sensor_history[k])].t
              - sensor_history[k][1].t = history_duration
        /\ sensor_history[k][1].t > 0

\* rank of a value of attitude.source: HCHDT > YXXDR > HCHDG/CHDG > TIROT
SourceRank(src) ==
    CASE src = Some("HCHDT") -> 4
      [] src = Some("YXXDR") -> 3
      [] src \in {Some("HCHDG"), Some("CHDG")} -> 2
      [] src = Some("TIROT") -> 1
      [] OTHER -> 0

\* C17: no step replaces attitude.source by a source of lower priority
C17_AttitudePriority ==
    [][SourceRank(sensor_data'.attitude.source)
         >= SourceRank(sensor_data.attitude.source)]_vars

\* the step that parses a GPVTG sentence with its fields present
VtgParsed ==
    /\ rx # <<>>
    /\ rx' = Tail(rx)
    /\ Head(rx).type = "GPVTG"
    /\ Len(Head(rx).fields) >= 6

\* C18: once gps.source is GPGGA no step changes it, and a GPVTG parsed then
\* still sets course_true and speed_kts from its fields
C18_GpsPriority ==
    [][sensor_data.gps.source = Some("GPGGA") =>
          /\ sensor_data'.gps.source = Some("GPGGA")
          /\ VtgParsed =>
                /\ sensor_data'.gps.course_true
                      = NumberOrNone(Field(Head(rx), 1))
                /\ sensor_data'.gps.speed_kts
                      = NumberOrNone(Field(Head(rx), 5))
      ]_vars

\* a GPVTG was parsed after a GPGGA and its course and speed are in the
\* snapshot
C18_Witness ==
    /\ sensor_data.gps.source = Some("GPGGA")
    /\ r_line.type = "GPVTG"
    /\ sensor_data.gps.course_true = Some(1)
    /\ sensor_data.gps.speed_kts = Some(2)

\* C19: a step that changes a field of a sub-record of the snapshot leaves
\* that sub-record's timestamp at the time of the step
C19_TimestampFresh ==
    [][\A s \in SubRecords :
          sensor_data'[s] # sensor_data[s] =>
              sensor_data'[s].timestamp = Some(now)]_vars

\* C13: with the operator's selection OperatorTypes in force for the whole
\* run, every datagram sent carries a sentence whose wire type is in that
\* selection, followed by a newline.
C13_UdpFilter ==
    \A i \in 1..Len(udp_sent) :
        /\ udp_sent[i][1].type \in OperatorTypes
        /\ udp_sent[i][2] = "\n"

\* C14: every sentence put in the message history or sent as a datagram
\* declares the checksum its bytes have, or declares none.
C14_ChecksumGate ==
    /\ \A i \in 1..Len(message_history) :
          nmea_checksum_ok(message_history[i]) # Some(FALSE)
    /\ \A i \in 1..Len(udp_sent) :
          nmea_checksum_ok(udp_sent[i][1]) # Some(FALSE)

\* C15: in every step other than the reset of disconnect_serial,
\* messages_received and each serial-health counter keep or raise their
\* value, whichever thread takes the step.
C15_CountersMonotonic ==
    [][cpc # "ds_reset" =>
          /\ messages_received' >= messages_received
          /\ \A c \in HealthCounters : serial_health'[c] >= serial_health[c]]_vars

\* a Connect issued while connected has stopped the reader and is about to
\* close the handle, with the totals of the session still standing
C15_Witness ==
    /\ op = "connect"
    /\ cpc = "cs_close"
    /\ messages_received = 2
    /\ serial_health["checksum_mismatch"] >= 1
    /\ serial_health["unmapped_messages"] >= 1

\* a call of start_streaming: the operation, or the call that ends
\* connect_serial
StartCall ==
    \/ cpc = "idle" /\ ops' = ops + 1 /\ op' = "start_streaming"
    \/ cpc = "cs_stream" /\ cpc' = "idle"

\* a call of stop_streaming as an operation
StopCall == cpc = "idle" /\ ops' = ops + 1 /\ op' = "stop_streaming"

\* the reader's step after a sendto that returned
CountStep == rpc = "sent" /\ rpc' = "loop"

\* C20: the step after a sendto that returned raises streamed_messages by
\* exactly 1 and no other step raises it; the only other change of the
\* counter is the reset to 0 by a start_streaming call made while not
\* streaming; a start_streaming call made while streaming keeps the counter
\* and the streaming flag, and a stop_streaming call made while stopped
\* keeps the counter and the flag.
C20_StreamedCounter ==
    [][/\ CountStep => streamed_messages' = streamed_messages + 1
       /\ (~CountStep /\ streamed_messages' # streamed_messages) =>
             /\ StartCall
             /\ ~is_streaming
             /\ streamed_messages' = 0
       /\ Len(udp_sent') > Len(udp_sent) =>
             /\ Len(udp_sent') = Len(udp_sent) + 1
             /\ rpc' = "sent"
       /\ (StartCall /\ is_streaming) =>
             /\ is_streaming'
             /\ streamed_messages' = streamed_messages
       /\ (StopCall /\ ~is_streaming) =>
             UNCHANGED <<is_streaming, streamed_messages>>]_vars

\* a start_streaming call has returned while streaming with the counter
\* still at the datagrams sent, one of them after a stop and a real start
C20_Witness ==
    /\ op = "start_streaming"
    /\ cpc = "idle"
    /\ is_streaming
    /\ streamed_messages = 1
    /\ Len(udp_sent) = 2

C25_Framer ==
    (call.fn = "split_nmea_sentences" /\ ret # None) =>
        /\ ret[1].lines = call.sentences
        /\ \A i \in 1..Len(ret[1].lines) :
              /\ Head(ret[1].lines[i]) = "$"
              /\ ret[1].types[i] =
                    LeadingRun(Tail(call.sentences[i]), Upper)

\* the damaged heading sentence, after comma-less text and run into the
\* sentence that follows it, came out whole and typed HCHDG
C25_Witness ==
    /\ call.fn = "split_nmea_sentences"
    /\ ret # None
    /\ Head(call.data) = "g"
    /\ Len(call.data) = 4 + Len(call.sentences[1]) + Len(call.sentences[2])
    /\ Len(ret[1].lines) = 2
    /\ ret[1].types[1] = <<"H", "C", "H", "D", "G">>
    /\ ret[1].types[2] = <<"C">>

\* C22: loading the document that save_state writes for a configuration,
\* with the selection listed in any order, gives back the same port,
\* baud_rate, is_streaming, selection (as a set) and sentence_config.
C22_SaveLoad ==
    (call.fn = "save_load" /\ ret # None) => ret[1] = call.config

\* a configuration with a port, streaming, two selected types listed in
\* the order WIMWV, HCHDG and two configured sentences came back
C22_Witness ==
    /\ call.fn = "save_load"
    /\ ret = Some(call.config)
    /\ call.config.port = "P"
    /\ call.config.is_streaming
    /\ call.order = <<"WIMWV", "HCHDG">>
    /\ Len(call.config.sentence_config) = 2

\* C24: the echo of the enable command of a registry id, in the plain
\* layout and in the layout with total and index, is parsed to that id with
\* enabled = (flag = 1) and the interval of the command; the echo for an
\* id outside the registry adds nothing.
C24_DialectRoundTrip ==
    (call.fn = "parse_en_report" /\ ret # None) =>
        ret[1] = IF call.id \in RegistryIds
                 THEN Some([id |-> call.id, enabled |-> call.flag = 1,
                            interval |-> call.interval])
                 ELSE None

\* C27: whatever interval the request body carries, the interval written
\* to the station and the one persisted are the same whole number of
\* tenths in 1..MaxTenths, 10 when the body carries none.
C27_IntervalTenths ==
    (call.fn = "configure_route" /\ ret # None) =>
        /\ ret[1].written \in 1..MaxTenths
        /\ ret[1].persisted = ret[1].written
        /\ call.raw.kind \in {"absent", "text"} =>
               ret[1].written = default_interval

\* a request for 1000 s was written as 50 tenths
C27_Witness ==
    /\ call.fn = "configure_route"
    /\ call.raw = [kind |-> "number", v |-> 100000]
    /\ ret # None
    /\ ret[1].written = MaxTenths

\* C29: a latitude or longitude written as degrees, minutes and four
\* decimals of the minutes and decoded with its hemisphere comes back
\* within 10 millionths of a degree of the signed original, negative or
\* zero for S and W.
C29_CoordRoundTrip ==
    (call.fn = "parse_nmea_coord" /\ ret # None) =>
        LET original == IF call.direction \in {"S", "W"}
                        THEN 0 - call.micro ELSE call.micro
        IN  /\ ret[1] # None
            /\ ret[1][1] - original \in -10..10
            /\ call.direction \in {"S", "W"} => ret[1][1] <= 0

\* 179.999999 W, written 17959.9999, was decoded to -179.999998
C29_Witness ==
    /\ call.fn = "parse_nmea_coord"
    /\ call.micro = 179999999
    /\ call.direction = "W"
    /\ call.coord_str = <<"1", "7", "9", "5", "9", ".", "9", "9", "9", "9">>
    /\ ret = Some(Some(0 - 179999998))

C28_ReaderFirst ==
    /\ ConnectOk
    /\ ops = 1
    /\ is_streaming
    /\ selected_message_types = {"WIMWV"}

\* one line per persisted sentence setting with a known id, in its order
ReplayLines ==
    LET known == SelectSeq(state.sentence_config,
                           LAMBDA c : c.id \in SUPPORTED_SENTENCES)
    IN  [i \in 1..Len(known) |->
            "$PAMTC,EN," \o known[i].id \o ","
            \o (IF known[i].enabled THEN "1" ELSE "0") \o ","
            \o ToString(known[i].interval)]

\* the last commands written are the five required lines and then the
\* replay of the persisted settings
EnabledAndReplayed ==
    LET tail == RequiredLines \o ReplayLines
    IN  /\ Len(cmd_log) >= Len(tail)
        /\ SubSeq(cmd_log, Len(cmd_log) - Len(tail) + 1, Len(cmd_log)) = tail

\* the step of a Connect that sets connection_status to connected
BecomesConnected ==
    /\ op = "connect"
    /\ connection_status # CONN_STATUS_CONNECTED
    /\ connection_status' = CONN_STATUS_CONNECTED

\* C30: in every Connect, when connection_status becomes connected the
\* five required enable lines and then one line per persisted setting have
\* been written, in that order and last, a reader is running that was not
\* told to stop, and no step of the Connect changes sentence_config; the
\* reader is started only after those lines.
C30_ConnectOrder ==
    [][/\ BecomesConnected =>
            /\ EnabledAndReplayed
            /\ rpc # "dead"
            /\ ~should_stop
       /\ (op = "connect" /\ rpc = "dead" /\ rpc' # "dead") => EnabledAndReplayed
       /\ (op = "connect" /\ cpc # "idle") =>
            state'.sentence_config = state.sentence_config]_vars

\* a step that counts a no-data error
NoDataStep ==
    serial_health'["nodata_exceptions"] # serial_health["nodata_exceptions"]

\* C26: a read error of the no-data kind adds exactly 1 to
\* nodata_exceptions, leaves other_read_exceptions alone and processes no
\* sentence; a throttled warning is written only for such an error; any two
\* warnings are at least 30 s apart; and when the first 10 errors of a
\* reader fall within 1 s, one warning has been written for them.
C26_NoDataThrottle ==
    [][/\ NoDataStep =>
            /\ serial_health'["nodata_exceptions"] =
                  serial_health["nodata_exceptions"] + 1
            /\ serial_health'["other_read_exceptions"] =
                  serial_health["other_read_exceptions"]
            /\ messages_received' = messages_received
            /\ message_history' = message_history
            /\ sensor_data' = sensor_data
            /\ udp_sent' = udp_sent
       /\ warn_log' # warn_log => NoDataStep
       /\ \A i, j \in DOMAIN warn_log' :
             i < j => warn_log'[j].t - warn_log'[i].t >= 30
       /\ (serial_health'["nodata_exceptions"] = 10 /\ now' <= 1) =>
             Len(warn_log') = 1]_vars

\* ten errors in the first second, with a sentence read among them, then
\* the eleventh 30 s after the first: two warnings, for the first and for
\* the eleventh error
C26_Witness ==
    /\ serial_health["nodata_exceptions"] = 11
    /\ serial_health["other_read_exceptions"] = 1
    /\ messages_received >= 1
    /\ Len(warn_log) = 2
    /\ warn_log[1] = [t |-> Epoch, n |-> 1]
    /\ warn_log[2] = [t |-> Epoch + 30, n |-> 11]

\* C23: when the process stops, wherever its threads are, and state.json
\* exists, the load_state of the next process meets a complete document.
C23_AtomicState ==
    (ret # None /\ ret[1].exists) => ret[1].doc # None

\* the file holds the document of one save_state followed by the end of
\* the document of another
C23_Interleaved ==
    /\ \A th \in Savers : saving[th].pc = "idle"
    /\ disk # None
    /\ Len(disk[1]) > 14
    /\ ParseDocument(disk[1]) = None

\* C31: whenever connect_serial has returned success, and until the next
\* operation begins, a reader thread is alive and the stop flag is cleared,
\* whatever the reader of an earlier session was doing when the Connect was
\* issued.
C31_ReaderRuns ==
    ConnectOk =>
        /\ rpc # "dead"
        /\ ~should_stop

\* C32: when _switch_to_38400 fails, by the confirmation window running out
\* or by an error of one of its statements, connect_serial does not return:
\* it leaves the handle closed and unset, counts the attempt, and the next
\* attempt tries the other rate; the sub-procedure ends in no other way than
\* by its confirmation or by that failure.
C32_SwitchFailure ==
    [][/\ (cpc = "sw_failed" /\ cpc' # cpc) =>
             /\ serial_connection' = "None"
             /\ cpc' = "cs_attempt"
             /\ attempt' = attempt + 1
             /\ result' = "none"
             /\ connection_status' # CONN_STATUS_FAILED
       /\ (cpc \in SwitchRaisers \cup {"sw_close"} /\ cpc' # cpc) =>
             cpc' \in SwitchRaisers \cup {"sw_close", "sw_failed", "en_begin"}
       /\ (cpc = "cs_attempt" /\ cpc' = "tb_open" /\ attempt > 0) =>
             current_baud' # current_baud]_vars

\* a Connect that returned success at 38400 on the attempt after a switch
\* that had written its baud command and failed
C32_Witness ==
    /\ ConnectOk
    /\ attempt_log = <<B4800, B38400>>
    /\ status_log =
          <<CONN_STATUS_TRYING_4800, CONN_STATUS_SWITCHING_BAUD,
            CONN_STATUS_TRYING_38400, CONN_STATUS_ENABLING_SENTENCES,
            CONN_STATUS_CONNECTED>>
    /\ cmd_log[3] = BaudCmd(B38400)
    /\ state.baud_rate = B38400

\* the commands of a change of rate, in the order of change_baud_rate
ChangeBaudLines(new) == <<"$PAMTX", BaudCmd(new), "$PAMTX,1">>

\* C33: change_baud_rate to a rate other than that of the open handle writes
\* $PAMTX and $PAMTC,BAUD,<new>, closes the handle, reopens it at <new> and
\* writes $PAMTX,1, in that order; when it returns success the handle is open
\* at <new> and baud_rate = <new> is in the state and in the state file; a
\* request for the rate of the open handle returns failure at once, with no
\* command written and the handler, the state, the state file and the station
\* unchanged.
C33_ChangeBaud ==
    [][/\ op' = "change_baud" =>
             /\ Len(cmd_log') <= 3
             /\ cmd_log' = SubSeq(ChangeBaudLines(arg'.new), 1, Len(cmd_log'))
       /\ (op = "change_baud" /\ serial_connection' # serial_connection) =>
             /\ Len(cmd_log') = 2
             /\ \/ serial_connection = "open" /\ serial_connection' = "closed"
                \/ /\ serial_connection = "closed"
                   /\ serial_connection' = "open"
                   /\ ser_baud' = arg.new
       /\ (op = "change_baud" /\ Len(cmd_log) = 2 /\ Len(cmd_log') = 3) =>
             /\ serial_connection = "open"
             /\ ser_baud = arg.new
       /\ (op' = "change_baud" /\ cpc' = "idle" /\ result' = "ok") =>
             /\ cmd_log' = ChangeBaudLines(arg'.new)
             /\ serial_connection' = "open"
             /\ ser_baud' = arg'.new
             /\ state'.baud_rate = arg'.new
             /\ state_file' = Some(state')
       /\ (op' = "change_baud" /\ ops' # ops
           /\ serial_connection = "open" /\ ser_baud = arg'.new) =>
             /\ cpc' = "idle"
             /\ result' = "fail"
             /\ cmd_log' = <<>>
             /\ UNCHANGED <<handlerVars, streamVars, storeVars, devVars, rx>>]_vars

\* a change to 4800 that returned success, and a request for 4800 after it
\* that was rejected
C33_Witness ==
    /\ cpc = "idle"
    /\ op = "change_baud"
    /\ arg.new = B4800
    /\ result = "fail"
    /\ cmd_log = <<>>
    /\ serial_connection = "open"
    /\ ser_baud = B4800
    /\ state_file = Some(state)
    /\ state.baud_rate = B4800

\* C34: a call of _parse_nmea_for_dashboard leaves every field of the
\* snapshot that held a value with a value: a field of the sentence that is
\* missing or empty does not take the value of the snapshot field away.
C34_KeepsPrevious ==
    [][\A sub \in SubRecords : \A f \in SubRecordFields[sub] :
          sensor_data[sub][f] # None => sensor_data'[sub][f] # None]_vars

\* the step of stream_message in which a statement raises
SendRaises == rpc = "send" /\ rpc' = "loop"

C40_StopIsFinal ==
    [][(~is_streaming /\ ~is_streaming') =>
          /\ udp_sent' = udp_sent
          /\ streamed_messages' = streamed_messages
          /\ ~udp_socket']_vars

\* C36: whenever no control operation is under way and connection_status
\* is connected, the serial handle is set and open, also when the last
\* operation returned failure.
C36_ConnectedIsOpen ==
    (cpc = "idle" /\ connection_status = CONN_STATUS_CONNECTED) =>
        serial_connection = "open"

\* C37: at most one thread made from _read_serial_loop is alive, whatever
\* Connect and Disconnect calls the two request handlers make and however
\* their steps interleave.
C37_SingleReader == Cardinality(LiveReaders) <= 1

\* the port and the rate the handler holds and those of the state file are
\* the ones of construction
AsConstructed ==
    /\ state.port = InitState.port
    /\ state.baud_rate = InitState.baud_rate
    /\ state_file # None =>
          /\ state_file[1].port = InitState.port
          /\ state_file[1].baud_rate = InitState.baud_rate

\* C38: when the first Connect since construction has returned failure, port
\* and baud_rate of the state and of the state file are what they were before
\* the call, also when the station was detected at 4800 and the switch to
\* 38400 failed.
C38_FailureKeepsState ==
    (ConnectReturned /\ ops = 1 /\ result = "fail") => AsConstructed

\* C39: the handle of a detection attempt and the handle of the handler are
\* never open together; when an attempt was not accepted (too few lines, or
\* an error after the port was opened) its handle is closed before the next
\* attempt opens the port; when Connect has returned failure no handle is
\* open.
C39_OneHandle ==
    /\ ~(conn_open /\ serial_connection = "open")
    /\ cpc = "cs_attempt" => ~conn_open
    /\ (ConnectReturned /\ result = "fail") =>
          ~conn_open /\ serial_connection # "open"

====
